---- MODULE Spec2Model ----
(***************************************************************************)
(* A model of the routing layer's decision-and-dispatch engine:            *)
(*   - config.py      the serving-mode gate (get_mode, check_spend_cap)    *)
(*   - router.py      the cost table and calculate_cost                    *)
(*   - ab_testing.py  the comparison multiplexer (stream_ab_test)          *)
(*                                                                         *)
(* Money is counted in 1/10000 of a cent (the precision calculate_cost     *)
(* rounds to), calendar days are natural numbers, and a chunk's text is    *)
(* represented by its position k in the producing generator's output.      *)
(***************************************************************************)
EXTENDS Integers, Sequences, FiniteSets, TLC

-----------------------------------------------------------------------------
(* Bounds of the model *)

\* calendar days the clock can read: 0 .. MaxDay
MaxDay == 2
\* concurrent callers of the serving-mode gate
NumCallers == 2
\* chunks the backend streams of one session yield at most, all together
MaxChunks == 2
\* the longest list of models a caller of get_ab_models passes
MaxRequested == 4
\* calls of one client the rate limiter admits at most while it is followed
MaxCalls == 22
\* times the clock of the rate limiter is advanced
MaxTicks == 2

-----------------------------------------------------------------------------
(* models.py: the closed enumerations *)

ModelName ==
    {"claude-3.5-sonnet", "gpt-4o", "gemini-1.5-pro", "deepseek-v3",
     "gpt-4o-mini", "claude-3-haiku"}

TaskType ==
    {"code", "creative", "math", "summarization", "translation", "qa",
     "multi_step"}

-----------------------------------------------------------------------------
(* router.py: the cost model *)

\* cost per 1K tokens, in 1/1000 of a cent (0.30 cents = 300)
MODEL_COSTS ==
    [m \in ModelName |->
        CASE m = "claude-3.5-sonnet" -> 300
          [] m = "gpt-4o"            -> 250
          [] m = "gemini-1.5-pro"    -> 180
          [] m = "deepseek-v3"       -> 140
          [] m = "gpt-4o-mini"       -> 15
          [] m = "claude-3-haiku"    -> 8]

\* round(x, 4) of x = n / 100 (in 1/10000 cent): Python rounds half to even
RoundHalfEven(n, d) ==
    LET q == n \div d
        r == n % d
    IN  IF 2 * r < d THEN q
        ELSE IF 2 * r > d THEN q + 1
        ELSE IF q % 2 = 0 THEN q ELSE q + 1

Min(a, b) == IF a < b THEN a ELSE b

\* calculate_cost(model, tokens) = round(MODEL_COSTS[model] * tokens / 1000, 4),
\* in 1/10000 of a cent
calculate_cost(model, tokens) ==
    RoundHalfEven(MODEL_COSTS[model] * tokens, 100)

-----------------------------------------------------------------------------
(* router.py: the routing table and the fallback table *)

ComplexityBand == {"low", "medium", "high"}

\* a variant of complexity_to_band whose thresholds belong to the band above
complexity_to_band_strict(complexity) ==
    IF complexity < 30 THEN "low"
    ELSE IF complexity < 60 THEN "medium"
    ELSE "high"

\* complexity_to_band(complexity); a complexity is counted in tenths (classify
\* rounds it to one decimal): 3.0 is 30
complexity_to_band(complexity) ==
    IF complexity <= 30 THEN "low"
    ELSE IF complexity <= 60 THEN "medium"
    ELSE "high"

\* a variant of the routing table that sends the high band to the cheapest
\* backend
ROUTING_MATRIX_cheap_high ==
    [t \in TaskType |->
        [b \in ComplexityBand |->
            IF b = "high" THEN "claude-3-haiku" ELSE "gpt-4o"]]

\* ROUTING_MATRIX[task_type][band], written low, medium, high
ROUTING_MATRIX ==
    [t \in TaskType |->
        LET row == CASE t = "code"          -> <<"gpt-4o-mini", "claude-3.5-sonnet", "claude-3.5-sonnet">>
                     [] t = "math"          -> <<"gpt-4o-mini", "deepseek-v3", "deepseek-v3">>
                     [] t = "creative"      -> <<"gpt-4o-mini", "gpt-4o", "claude-3.5-sonnet">>
                     [] t = "summarization" -> <<"claude-3-haiku", "gpt-4o-mini", "gemini-1.5-pro">>
                     [] t = "qa"            -> <<"claude-3-haiku", "gpt-4o-mini", "gpt-4o">>
                     [] t = "translation"   -> <<"gpt-4o-mini", "gpt-4o", "gpt-4o">>
                     [] t = "multi_step"    -> <<"gpt-4o-mini", "claude-3.5-sonnet", "claude-3.5-sonnet">>
        IN  [b \in ComplexityBand |->
                CASE b = "low" -> row[1] [] b = "medium" -> row[2] [] b = "high" -> row[3]]]

\* a variant of the fallback table that is one chain through all backends
FALLBACK_ORDER_chain ==
    [m \in ModelName |->
        CASE m = "claude-3.5-sonnet" -> "gpt-4o"
          [] m = "gpt-4o"            -> "gemini-1.5-pro"
          [] m = "gemini-1.5-pro"    -> "deepseek-v3"
          [] m = "deepseek-v3"       -> "gpt-4o-mini"
          [] m = "gpt-4o-mini"       -> "claude-3-haiku"
          [] m = "claude-3-haiku"    -> "claude-3.5-sonnet"]

FALLBACK_ORDER ==
    [m \in ModelName |->
        CASE m = "claude-3.5-sonnet" -> "gpt-4o"
          [] m = "gpt-4o"            -> "claude-3.5-sonnet"
          [] m = "gemini-1.5-pro"    -> "gpt-4o"
          [] m = "deepseek-v3"       -> "gpt-4o-mini"
          [] m = "gpt-4o-mini"       -> "claude-3-haiku"
          [] m = "claude-3-haiku"    -> "gpt-4o-mini"]

\* select_model(task_type, complexity): the model and the reason; the reason
\* text is determined by the model, the complexity and the band
select_model(t, complexity) ==
    LET band == complexity_to_band(complexity)
        m    == ROUTING_MATRIX[t][band]
    IN  [model |-> m, reason |-> <<"routed", m, band>>]

-----------------------------------------------------------------------------
(* classifier.py: text and regular expressions *)

\* the i-th character of text
Char(text, i) == SubSeq(text, i, i)

\* kw in text
Contains(text, kw) ==
    \E i \in 1 .. (Len(text) - Len(kw) + 1) :
        SubSeq(text, i, i + Len(kw) - 1) = kw

UpperCase == "ABCDEFGHIJKLMNOPQRSTUVWXYZ"

LowerCase == "abcdefghijklmnopqrstuvwxyz"

Digits == "0123456789"

LowerChar(ch) ==
    IF Contains(UpperCase, ch)
    THEN Char(LowerCase, CHOOSE j \in 1 .. Len(UpperCase) : Char(UpperCase, j) = ch)
    ELSE ch

\* str.lower()
RECURSIVE Lower(_)
Lower(text) ==
    IF Len(text) = 0 THEN text
    ELSE LowerChar(Char(text, 1)) \o Lower(SubSeq(text, 2, Len(text)))

\* whitespace: what str.split() splits at and \s matches
IsSpace(ch) == ch \in {" ", "\n", "\t", "\r", "\f"}

\* the positions at which the words of text.split() start
WordStarts(text) ==
    {i \in 1 .. Len(text) :
        ~IsSpace(Char(text, i)) /\ (i = 1 \/ IsSpace(Char(text, i - 1)))}

\* the characters of the words of text.split(): sum(len(w) for w in words)
WordChars(text) == {i \in 1 .. Len(text) : ~IsSpace(Char(text, i))}

\* the character classes of the patterns
InClass(class, ch) ==
    CASE class = "\\s"       -> IsSpace(ch)
      [] class = "\\d"       -> Contains(Digits, ch)
      [] class = "\\w"       -> Contains(LowerCase, ch) \/ Contains(UpperCase, ch)
                                  \/ Contains(Digits, ch) \/ ch = "_"
      [] class = "."         -> ch # "\n"
      [] class = "[\\s\\S]"  -> TRUE
      [] class = "[\\s-]"    -> IsSpace(ch) \/ ch = "-"
      [] class = "[+\\-*/^]" -> ch \in {"+", "-", "*", "/", "^"}

\* a pattern is a tree of nodes [op, s, parts]
Lit(s) == [op |-> "lit", s |-> s, parts |-> <<>>]
Class(c) == [op |-> "class", s |-> c, parts |-> <<>>]
Cat(parts) == [op |-> "cat", s |-> "", parts |-> parts]
Alt(parts) == [op |-> "alt", s |-> "", parts |-> parts]
Opt(r) == [op |-> "opt", s |-> "", parts |-> <<r>>]
Plus(r) == [op |-> "plus", s |-> "", parts |-> <<r>>]
Star(r) == [op |-> "star", s |-> "", parts |-> <<r>>]
Bol == [op |-> "bol", s |-> "", parts |-> <<>>]

\* (?:w1|w2|...)
AnyOf(ws) == Alt([j \in 1 .. Len(ws) |-> Lit(ws[j])])

\* \s+
Gap == Plus(Class("\\s"))

\* Ends(r, text, from): the positions just after a match of r that starts at a
\* position of from
RECURSIVE Ends(_, _, _), EndsCat(_, _, _), EndsRepeat(_, _, _)
Ends(r, text, from) ==
    CASE r.op = "lit" ->
            {i + Len(r.s) :
                i \in {j \in from : /\ j + Len(r.s) - 1 <= Len(text)
                                    /\ SubSeq(text, j, j + Len(r.s) - 1) = r.s}}
      [] r.op = "class" ->
            {i + 1 : i \in {j \in from : j <= Len(text) /\ InClass(r.s, Char(text, j))}}
      [] r.op = "cat" -> EndsCat(r.parts, text, from)
      [] r.op = "alt" -> UNION {Ends(r.parts[j], text, from) : j \in 1 .. Len(r.parts)}
      [] r.op = "opt" -> from \cup Ends(r.parts[1], text, from)
      [] r.op = "plus" -> EndsRepeat(r.parts[1], text, Ends(r.parts[1], text, from))
      [] r.op = "star" -> EndsRepeat(r.parts[1], text, from)
      [] r.op = "bol" -> from \cap {1}

EndsCat(parts, text, from) ==
    IF parts = <<>> THEN from
    ELSE EndsCat(Tail(parts), text, Ends(Head(parts), text, from))

EndsRepeat(r, text, from) ==
    LET more == from \cup Ends(r, text, from)
    IN  IF more = from THEN from ELSE EndsRepeat(r, text, more)

\* re.search(r, text) finds a match
search(r, text) == Ends(r, text, 1 .. Len(text) + 1) # {}

-----------------------------------------------------------------------------
(* classifier.py: the tables *)

\* the order of the keys of TASK_PATTERNS
TaskOrder ==
    <<"code", "creative", "math", "summarization", "translation", "qa",
      "multi_step">>

Languages ==
    <<"english", "spanish", "french", "german", "chinese", "japanese",
      "korean", "arabic", "portuguese", "italian", "russian", "hindi">>

\* the code fence, three backquotes in the source; a string of this module
\* cannot hold a backquote, an apostrophe stands for it (no prompt of the
\* model holds either)
Fence == "'''"

\* TASK_PATTERNS[task_type]: keywords, patterns, weight in thousandths
TASK_PATTERNS ==
    [t \in TaskType |->
      CASE t = "code" ->
        [keywords |->
            <<"function", "code", "program", "implement", "debug", "refactor",
              "algorithm", "api", "class", "method", "variable", "loop",
              "syntax", "compile", "runtime", "database", "query", "sql",
              "python", "javascript", "typescript", "java", "rust", "golang",
              "html", "css", "react", "django", "flask", "fastapi">>,
         patterns |->
            <<Cat(<<Lit("write"), Gap, Opt(Cat(<<Lit("a"), Gap>>)),
                    AnyOf(<<"python", "javascript", "java", "c++", "rust",
                            "go", "typescript">>)>>),
              Cat(<<AnyOf(<<"fix", "debug", "refactor">>), Gap,
                    AnyOf(<<"this", "the", "my">>), Gap, Lit("code")>>),
              Cat(<<Lit("implement"), Gap, Opt(Cat(<<Lit("a"), Gap>>)),
                    AnyOf(<<"function", "class", "method", "api", "endpoint">>)>>),
              Cat(<<Lit(Fence), Star(Class("[\\s\\S]")), Lit(Fence)>>),
              Cat(<<Lit("how"), Gap, AnyOf(<<"do", "can", "to">>), Gap,
                    Opt(Cat(<<Lit("i"), Gap>>)),
                    AnyOf(<<"code", "program", "implement">>)>>)>>,
         weight |-> 1000]
      [] t = "creative" ->
        [keywords |->
            <<"write", "story", "poem", "essay", "creative", "fiction",
              "character", "narrative", "dialogue", "metaphor", "imagine",
              "compose", "draft", "blog", "article", "screenplay", "lyric">>,
         patterns |->
            <<Cat(<<Lit("write"), Gap, Opt(Cat(<<Lit("a"), Gap>>)),
                    AnyOf(<<"story", "poem", "essay", "article", "blog",
                            "screenplay">>)>>),
              Cat(<<AnyOf(<<"creative", "fiction", "narrative">>), Gap,
                    Lit("writing")>>),
              Cat(<<Lit("imagine"), Gap, AnyOf(<<"a", "that", "if">>)>>),
              Cat(<<Lit("compose"), Gap, Opt(Cat(<<Lit("a"), Gap>>)),
                    AnyOf(<<"poem", "letter", "song", "email">>)>>)>>,
         weight |-> 1000]
      [] t = "math" ->
        [keywords |->
            <<"calculate", "solve", "equation", "math", "algebra", "calculus",
              "probability", "statistics", "integral", "derivative", "proof",
              "theorem", "formula", "geometric", "trigonometry", "matrix",
              "vector", "optimization", "linear", "quadratic">>,
         patterns |->
            <<Cat(<<AnyOf(<<"solve", "calculate", "compute", "evaluate", "find">>),
                    Gap, AnyOf(<<"the", "this", "for">>)>>),
              Cat(<<Plus(Class("\\d")), Star(Class("\\s")), Class("[+\\-*/^]"),
                    Star(Class("\\s")), Plus(Class("\\d"))>>),
              Cat(<<AnyOf(<<"integral", "derivative", "limit">>), Gap, Lit("of")>>),
              Cat(<<AnyOf(<<"prove", "show">>), Gap, Lit("that")>>),
              Cat(<<Lit("what"), Gap, Lit("is"), Gap, Plus(Class("\\d"))>>)>>,
         weight |-> 1000]
      [] t = "summarization" ->
        [keywords |->
            <<"summarize", "summary", "tldr", "brief", "condense", "overview",
              "key points", "main ideas", "recap", "digest", "abstract",
              "shorten", "highlights">>,
         patterns |->
            <<Alt(<<Lit("summarize"), Lit("sum up"),
                    Cat(<<Lit("give"), Gap, AnyOf(<<"a", "me">>), Gap,
                          Opt(Cat(<<Lit("a"), Gap>>)), Lit("summary")>>)>>),
              Alt(<<Lit("tldr"), Lit("tl;dr"),
                    Cat(<<Lit("too"), Gap, Lit("long")>>)>>),
              Cat(<<AnyOf(<<"key", "main", "important">>), Gap,
                    AnyOf(<<"points", "ideas", "takeaways">>)>>),
              Cat(<<AnyOf(<<"brief", "short", "concise">>), Gap,
                    AnyOf(<<"overview", "summary", "description">>)>>)>>,
         weight |-> 1000]
      [] t = "translation" ->
        [keywords |->
            <<"translate", "translation", "convert", "language", "spanish",
              "french", "german", "chinese", "japanese", "korean", "arabic",
              "portuguese", "italian", "russian", "hindi", "localize">>,
         patterns |->
            <<Cat(<<Lit("translate"), Gap,
                    AnyOf(<<"this", "the", "following", "into", "to", "from">>)>>),
              Cat(<<AnyOf(<<"from", "into", "to">>), Gap, AnyOf(Languages)>>),
              Cat(<<AnyOf(<<"in", "to">>), Gap, Plus(Class("\\w")), Gap,
                    AnyOf(<<"language", "translation">>)>>),
              Cat(<<Lit("how"), Gap,
                    Opt(Cat(<<Lit("do"), Gap, Lit("you"), Gap>>)),
                    Lit("say"), Gap, Plus(Class(".")), Gap, Lit("in"), Gap,
                    Plus(Class("\\w"))>>)>>,
         weight |-> 1000]
      [] t = "qa" ->
        [keywords |->
            <<"what", "who", "where", "when", "why", "how", "explain",
              "define", "describe", "tell", "meaning", "difference",
              "compare", "example", "does", "is", "are", "can">>,
         patterns |->
            <<Cat(<<Bol, AnyOf(<<"what", "who", "where", "when", "why", "how">>),
                    Gap>>),
              Cat(<<AnyOf(<<"explain", "describe", "define">>), Gap,
                    AnyOf(<<"the", "what", "how">>)>>),
              Cat(<<Lit("what"), Gap, AnyOf(<<"is", "are", "does", "do">>), Gap>>),
              Cat(<<AnyOf(<<"can", "could">>), Gap, Lit("you"), Gap,
                    AnyOf(<<"explain", "tell", "describe">>)>>),
              Cat(<<AnyOf(<<"difference", "comparison">>), Gap, Lit("between")>>)>>,
         weight |-> 800]
      [] t = "multi_step" ->
        [keywords |->
            <<"step", "steps", "first", "then", "next", "finally",
              "process", "workflow", "pipeline", "plan", "strategy",
              "guide", "tutorial", "walkthrough", "instructions", "procedure">>,
         patterns |->
            <<Cat(<<Lit("step"), Class("[\\s-]"), Lit("by"), Class("[\\s-]"),
                    Lit("step")>>),
              Alt(<<Lit("first"), Lit("then"), Lit("next"), Lit("finally"),
                    Cat(<<Lit("after"), Gap, Lit("that")>>)>>),
              Cat(<<AnyOf(<<"create", "build", "design", "develop">>), Gap,
                    Opt(Cat(<<Lit("a"), Gap>>)),
                    AnyOf(<<"complete", "full", "entire">>)>>),
              Cat(<<Alt(<<Cat(<<Lit("how"), Gap, Lit("to")>>),
                          Cat(<<Lit("guide"), Gap, AnyOf(<<"to", "for", "on">>)>>)>>),
                    Gap,
                    Alt(<<Lit("build"), Lit("create"),
                          Cat(<<Lit("set"), Gap, Lit("up")>>), Lit("deploy")>>)>>),
              Cat(<<AnyOf(<<"plan", "strategy", "roadmap">>), Gap, Lit("for")>>)>>,
         weight |-> 1000]]

REASONING_WORDS ==
    <<"because", "therefore", "however", "although", "whereas",
      "if", "then", "else", "unless", "assuming",
      "compare", "contrast", "analyze", "evaluate", "assess",
      "pros and cons", "trade-off", "implications", "consequences",
      "on the other hand", "alternatively", "furthermore", "moreover",
      "considering", "given that", "in light of">>

\* the terms of DOMAIN_VOCAB, domain after domain
DOMAIN_VOCAB ==
    <<"diagnosis", "symptom", "treatment", "patient", "clinical", "pathology",
      "pharmaceutical", "dosage", "prognosis", "etiology", "comorbidity",
      "jurisdiction", "statute", "liability", "plaintiff", "defendant",
      "precedent", "tort", "breach", "contractual", "indemnity", "arbitration",
      "portfolio", "derivative", "hedge", "amortization", "equity",
      "dividend", "liquidity", "volatility", "arbitrage", "securities",
      "hypothesis", "methodology", "empirical", "quantitative", "peer-reviewed",
      "replication", "variance", "coefficient", "correlation", "longitudinal">>

\* TASK_BASE_COMPLEXITY, whole numbers
TASK_BASE_COMPLEXITY ==
    [t \in TaskType |->
        CASE t = "code"          -> 6
          [] t = "creative"      -> 5
          [] t = "math"          -> 7
          [] t = "summarization" -> 3
          [] t = "translation"   -> 4
          [] t = "qa"            -> 3
          [] t = "multi_step"    -> 7]

\* context_refs of compute_complexity
ContextRefs ==
    <<"above", "previous", "earlier", "mentioned", "as shown", "given the">>

\* the weights of the six signals, in hundredths
SignalWeights ==
    [token_length |-> 20, task_type_match |-> 15, reasoning_depth |-> 25,
     domain_specificity |-> 15, context_needs |-> 15,
     vocabulary_complexity |-> 10]

-----------------------------------------------------------------------------
(* classifier.py: detect_task_type, compute_complexity, classify *)

\* sum(1 for w in words if w in text)
Hits(words, text) == Cardinality({j \in 1 .. Len(words) : Contains(text, words[j])})

\* sum(1 for pat in patterns if re.search(pat, text))
RegexHits(patterns, text) ==
    Cardinality({j \in 1 .. Len(patterns) : search(patterns[j], text)})

\* line 157: the score of a category, in thousandths
Score(t, text) ==
    (Hits(TASK_PATTERNS[t].keywords, text) * 1
        + RegexHits(TASK_PATTERNS[t].patterns, text) * 2) * TASK_PATTERNS[t].weight

Max(a, b) == IF a > b THEN a ELSE b

\* the default confidence, 0.3, in thousandths
DefaultConfidence == 300

\* a variant of detect_task_type without the default: the first category with
\* the quotient of its zero score
detect_task_type_no_default(prompt) ==
    LET prompt_lower == Lower(prompt)
        scores == [t \in TaskType |-> Score(t, prompt_lower)]
        top == CHOOSE j \in 1 .. Len(TaskOrder) :
                  /\ \A k \in 1 .. Len(TaskOrder) :
                        scores[TaskOrder[k]] <= scores[TaskOrder[j]]
                  /\ \A k \in 1 .. j - 1 :
                        scores[TaskOrder[k]] < scores[TaskOrder[j]]
        top_score == scores[TaskOrder[top]]
        second_score ==
            CHOOSE v \in {scores[TaskOrder[k]] : k \in 1 .. Len(TaskOrder) \ {top}} :
                \A k \in 1 .. Len(TaskOrder) \ {top} : scores[TaskOrder[k]] <= v
    IN  [task_type |-> TaskOrder[top],
         confidence |-> Min(1000, RoundHalfEven(1000 * top_score,
                                                top_score + second_score + 1))]

\* detect_task_type(prompt): the category and the confidence, in thousandths.
\* sorted(..., reverse=True) is stable: among equal scores the category that
\* comes first in TASK_PATTERNS is on top.
detect_task_type(prompt) ==
    LET prompt_lower == Lower(prompt)
        scores == [t \in TaskType |-> Score(t, prompt_lower)]
        top == CHOOSE j \in 1 .. Len(TaskOrder) :
                  /\ \A k \in 1 .. Len(TaskOrder) :
                        scores[TaskOrder[k]] <= scores[TaskOrder[j]]
                  /\ \A k \in 1 .. j - 1 :
                        scores[TaskOrder[k]] < scores[TaskOrder[j]]
        top_score == scores[TaskOrder[top]]
        second_score ==
            CHOOSE v \in {scores[TaskOrder[k]] : k \in 1 .. Len(TaskOrder) \ {top}} :
                \A k \in 1 .. Len(TaskOrder) \ {top} : scores[TaskOrder[k]] <= v
    IN  IF top_score = 0
        THEN [task_type |-> "qa", confidence |-> DefaultConfidence]
        ELSE [task_type |-> TaskOrder[top],
              confidence |-> Min(1000, RoundHalfEven(1000 * top_score,
                                                     top_score + second_score + 1))]

\* lines 174-217: the six signals, in hundredths. round() of a float that is
\* written half-way between two decimals goes by the float's binary value;
\* RoundHalfEven is round() on every other value. On every prompt of Prompts
\* the category, complexity and confidence below are those that classify
\* of classifier.py returns.
Signals(prompt, task_type, confidence) ==
    LET word_count == Cardinality(WordStarts(prompt))
        prompt_lower == Lower(prompt)
        newlines == Cardinality({i \in 1 .. Len(prompt) : Char(prompt, i) = "\n"})
        context_score ==
            200 * Hits(ContextRefs, prompt_lower)
                + (IF newlines > 3 THEN 200 ELSE 0)
                + (IF word_count > 200 THEN 300 ELSE 0)
        excess == Cardinality(WordChars(prompt)) - 3 * word_count
    IN  [token_length |-> Min(1000, 20 * word_count),
         task_type_match |->
            RoundHalfEven(TASK_BASE_COMPLEXITY[task_type] * confidence, 10),
         reasoning_depth |-> Min(1000, 150 * Hits(REASONING_WORDS, prompt_lower)),
         domain_specificity |-> Min(1000, 250 * Hits(DOMAIN_VOCAB, prompt_lower)),
         context_needs |-> Min(1000, context_score),
         vocabulary_complexity |->
            IF excess <= 0 THEN 0
            ELSE Min(1000, RoundHalfEven(250 * excess, Max(1, word_count)))]

\* lines 229: the weighted sum of the signals, in 1/10000
Raw(signals) ==
    signals.token_length * SignalWeights.token_length
        + signals.task_type_match * SignalWeights.task_type_match
        + signals.reasoning_depth * SignalWeights.reasoning_depth
        + signals.domain_specificity * SignalWeights.domain_specificity
        + signals.context_needs * SignalWeights.context_needs
        + signals.vocabulary_complexity * SignalWeights.vocabulary_complexity

\* a variant of compute_complexity that does not clamp the rounded sum
compute_complexity_unclamped(prompt, task_type, confidence) ==
    RoundHalfEven(Raw(Signals(prompt, task_type, confidence)), 1000)

\* compute_complexity(prompt, task_type, confidence): the complexity, in tenths
compute_complexity(prompt, task_type, confidence) ==
    Max(10, Min(100, RoundHalfEven(Raw(Signals(prompt, task_type, confidence)),
                                   1000)))

\* classify(prompt)
classify(prompt) ==
    LET d == detect_task_type(prompt)
    IN  [task_type |-> d.task_type,
         complexity |-> compute_complexity(prompt, d.task_type, d.confidence),
         confidence |-> d.confidence]

-----------------------------------------------------------------------------
(* config.py: the serving-mode gate *)

\* the daily cap, in cents
DAILY_SPEND_CAP_CENTS == 200

\* the cap in the model's money unit
SpendCap == DAILY_SPEND_CAP_CENTS * 10000

\* _forced_demo_date = None
NoDate == -1

Days == 0 .. MaxDay

Callers == 1 .. NumCallers

\* results of the ledger query SUM(cost_cents) the model distinguishes
LedgerValues == {0, SpendCap - 1, SpendCap, SpendCap + 1}

VARIABLES
    openrouter_api_key,   \* TRUE iff a live credential is configured
    forced_demo,          \* _forced_demo
    forced_demo_date,     \* _forced_demo_date, NoDate for None
    today,                \* date.today()
    ledger,               \* what the ledger query returns now
    mpc,                  \* per caller: "idle", "await_fetch" (inside
                          \* check_spend_cap), "await_info_live" or
                          \* "await_info_demo" (inside get_mode_info, with
                          \* the mode it read before its query)
    spent,                \* per caller: the total its ledger query returned
    op,                   \* the last operation of the gate that ran: [name, caller]
                          \* ("get_mode" for every evaluation of get_mode,
                          \* whoever calls it)
    ret,                  \* what it returned: "live", "demo", "True", "False", "none"
    flip_day              \* the day check_spend_cap last set the flag, NoDate if never

cfgVars == <<openrouter_api_key, forced_demo, forced_demo_date, today, ledger>>
modeVars == <<mpc, spent, op, ret, flip_day>>

\* a variant of get_mode that clears the flag whatever its date
get_mode_resets_any_day(key, fd, fdd, day) ==
    IF ~key THEN [ret |-> "demo", forced_demo |-> fd, forced_demo_date |-> fdd]
    ELSE [ret |-> "live", forced_demo |-> FALSE, forced_demo_date |-> NoDate]

\* a variant of get_mode that never clears the flag
get_mode_never_resets(key, fd, fdd, day) ==
    [ret |-> IF ~key \/ fd THEN "demo" ELSE "live",
     forced_demo |-> fd, forced_demo_date |-> fdd]

\* a variant of get_mode that looks at the flag only, not at the credential
get_mode_ignores_key(key, fd, fdd, day) ==
    LET reset == fd /\ fdd # day
        fd1   == IF reset THEN FALSE ELSE fd
        fdd1  == IF reset THEN NoDate ELSE fdd
    IN  [ret |-> IF fd1 THEN "demo" ELSE "live",
         forced_demo |-> fd1, forced_demo_date |-> fdd1]

\* a variant of get_mode that records a missing credential in the flag
get_mode_flags_missing_key(key, fd, fdd, day) ==
    IF ~key
    THEN [ret |-> "demo", forced_demo |-> TRUE, forced_demo_date |-> day]
    ELSE LET reset == fd /\ fdd # day
             fd1   == IF reset THEN FALSE ELSE fd
             fdd1  == IF reset THEN NoDate ELSE fdd
         IN  [ret |-> IF fd1 THEN "demo" ELSE "live",
              forced_demo |-> fd1, forced_demo_date |-> fdd1]

\* get_mode(): the value returned and the flag and date it leaves
get_mode(key, fd, fdd, day) ==
    IF ~key
    THEN [ret |-> "demo", forced_demo |-> fd, forced_demo_date |-> fdd]
    ELSE LET reset == fd /\ fdd # day
             fd1   == IF reset THEN FALSE ELSE fd
             fdd1  == IF reset THEN NoDate ELSE fdd
         IN  [ret |-> IF fd1 THEN "demo" ELSE "live",
              forced_demo |-> fd1, forced_demo_date |-> fdd1]

\* a variant of check_spend_cap that lets a total equal to the cap pass
check_spend_cap_strict(total, fd, fdd, day) ==
    IF total > SpendCap
    THEN [ret |-> FALSE, forced_demo |-> TRUE,
          forced_demo_date |-> IF ~fd THEN day ELSE fdd]
    ELSE [ret |-> TRUE, forced_demo |-> fd, forced_demo_date |-> fdd]

\* a variant of check_spend_cap that stamps the date whether or not the flag
\* was set
check_spend_cap_always_stamps(total, fd, fdd, day) ==
    IF total >= SpendCap
    THEN [ret |-> FALSE, forced_demo |-> TRUE, forced_demo_date |-> day]
    ELSE [ret |-> TRUE, forced_demo |-> fd, forced_demo_date |-> fdd]

\* check_spend_cap() after its ledger query returned total: the value returned
\* and the flag and date it leaves
check_spend_cap(total, fd, fdd, day) ==
    IF total >= SpendCap
    THEN [ret |-> FALSE, forced_demo |-> TRUE,
          forced_demo_date |-> IF ~fd THEN day ELSE fdd]
    ELSE [ret |-> TRUE, forced_demo |-> fd, forced_demo_date |-> fdd]

BoolStr(b) == IF b THEN "True" ELSE "False"


-----------------------------------------------------------------------------
(* The gate under concurrent callers: specification SpecMode *)

\* a caller evaluates get_mode() (synchronous, one step): a request handler
\* (main.py 136, ab_testing.py 122), /health, or the rate limiter reading its
\* window and threshold (main.py 37)
GetMode(c) ==
    /\ mpc[c] = "idle"
    /\ LET r == get_mode(openrouter_api_key, forced_demo, forced_demo_date, today)
       IN  /\ forced_demo' = r.forced_demo
           /\ forced_demo_date' = r.forced_demo_date
           /\ ret' = r.ret
    /\ op' = [name |-> "get_mode", caller |-> c]
    /\ UNCHANGED <<openrouter_api_key, today, ledger, mpc, spent, flip_day>>

\* check_spend_cap() up to its await: the ledger query is issued and answered
CheckSpendCapQuery(c) ==
    /\ mpc[c] = "idle"
    /\ mpc' = [mpc EXCEPT ![c] = "await_fetch"]
    /\ spent' = [spent EXCEPT ![c] = ledger]
    /\ op' = [name |-> "fetch_one", caller |-> c]
    /\ ret' = "none"
    /\ UNCHANGED <<openrouter_api_key, forced_demo, forced_demo_date, today,
                   ledger, flip_day>>

\* check_spend_cap() after its await: compare, flip, return
CheckSpendCapDecide(c) ==
    /\ mpc[c] = "await_fetch"
    /\ LET r == check_spend_cap(spent[c], forced_demo, forced_demo_date, today)
       IN  /\ forced_demo' = r.forced_demo
           /\ forced_demo_date' = r.forced_demo_date
           /\ ret' = BoolStr(r.ret)
           /\ flip_day' = IF r.forced_demo /\ ~forced_demo THEN today ELSE flip_day
    /\ mpc' = [mpc EXCEPT ![c] = "idle"]
    /\ op' = [name |-> "check_spend_cap", caller |-> c]
    /\ UNCHANGED <<openrouter_api_key, today, ledger, spent>>

\* get_mode_info() up to its await: get_mode() is evaluated, the ledger query
\* is issued (its answer, spend_today, is only reported to the caller)
GetModeInfoQuery(c) ==
    /\ mpc[c] = "idle"
    /\ LET r == get_mode(openrouter_api_key, forced_demo, forced_demo_date, today)
       IN  /\ forced_demo' = r.forced_demo
           /\ forced_demo_date' = r.forced_demo_date
           /\ ret' = r.ret
           /\ mpc' = [mpc EXCEPT ![c] = IF r.ret = "live" THEN "await_info_live"
                                        ELSE "await_info_demo"]
    /\ op' = [name |-> "get_mode", caller |-> c]
    /\ UNCHANGED <<openrouter_api_key, today, ledger, spent, flip_day>>

\* get_mode_info() after its await: the flag and the credential are read for
\* the reason, the mode read before the query is returned
GetModeInfoReturn(c) ==
    /\ mpc[c] \in {"await_info_live", "await_info_demo"}
    /\ ret' = IF mpc[c] = "await_info_live" THEN "live" ELSE "demo"
    /\ mpc' = [mpc EXCEPT ![c] = "idle"]
    /\ op' = [name |-> "get_mode_info", caller |-> c]
    /\ UNCHANGED <<cfgVars, spent, flip_day>>

\* the record store changes what the ledger query returns (records are
\* inserted, corrected or age out of "today")
LedgerChange ==
    /\ \E v \in LedgerValues \ {ledger} : ledger' = v
    /\ op' = [name |-> "ledger", caller |-> 0]
    /\ ret' = "none"
    /\ UNCHANGED <<openrouter_api_key, forced_demo, forced_demo_date, today,
                   mpc, spent, flip_day>>

\* the clock passes midnight
AdvanceDay ==
    /\ today < MaxDay
    /\ today' = today + 1
    /\ op' = [name |-> "midnight", caller |-> 0]
    /\ ret' = "none"
    /\ UNCHANGED <<openrouter_api_key, forced_demo, forced_demo_date, ledger,
                   mpc, spent, flip_day>>

-----------------------------------------------------------------------------
(* gateway.py, gateway_live.py: what a backend completion delivers *)

\* best-case / worst-case latency per model, in ms
LATENCY_RANGES ==
    [m \in ModelName |->
        CASE m = "gemini-1.5-pro"    -> <<200, 800>>
          [] m = "claude-3-haiku"    -> <<200, 600>>
          [] m = "gpt-4o-mini"       -> <<300, 700>>
          [] m = "deepseek-v3"       -> <<300, 600>>
          [] m = "claude-3.5-sonnet" -> <<800, 3000>>
          [] m = "gpt-4o"            -> <<600, 2500>>]

\* _estimate_tokens and the live gateway both report max(10, ...) tokens
MinTokens == 10

\* token counts of a final "done" marker the model distinguishes
TokenCounts == {MinTokens}

\* a variant of the choice of gateway that goes to the provider whenever a
\* credential is configured
Gateway_by_credential(mode) ==
    IF openrouter_api_key THEN "gateway_live" ELSE "gateway"

\* a variant of the choice of gateway that reads the process-wide flag at the
\* time of the call instead of the mode the request resolved
Gateway_by_flag(mode) ==
    IF openrouter_api_key /\ ~forced_demo THEN "gateway_live" ELSE "gateway"

\* the gateway module a call goes to: gateway_live (the provider) in live
\* mode, gateway (the simulation) else (main.py 173-177, 243-247;
\* ab_testing.py 55-59, 137-141)
Gateway(mode) == IF mode = "live" THEN "gateway_live" ELSE "gateway"

-----------------------------------------------------------------------------
(* ab_testing.py: the comparison multiplexer *)

\* requested[:3]
MaxModels == 3

Tasks == 1 .. MaxModels

DEFAULT_AB_MODELS ==
    [t \in TaskType |->
        CASE t = "code"          -> <<"claude-3.5-sonnet", "gpt-4o", "gpt-4o-mini">>
          [] t = "math"          -> <<"deepseek-v3", "gpt-4o", "gpt-4o-mini">>
          [] t = "creative"      -> <<"claude-3.5-sonnet", "gpt-4o", "gpt-4o-mini">>
          [] t = "summarization" -> <<"gemini-1.5-pro", "gpt-4o-mini", "claude-3-haiku">>
          [] t = "qa"            -> <<"gpt-4o", "gpt-4o-mini", "claude-3-haiku">>
          [] t = "translation"   -> <<"gpt-4o", "gpt-4o-mini", "claude-3.5-sonnet">>
          [] t = "multi_step"    -> <<"claude-3.5-sonnet", "gpt-4o", "gpt-4o-mini">>]

\* get_ab_models(task_type, requested); requested = None is the empty list
\* (both are falsy)
get_ab_models(t, req) ==
    IF Len(req) >= 2
    THEN SubSeq(req, 1, Min(MaxModels, Len(req)))
    ELSE DEFAULT_AB_MODELS[t]

\* the (task_type, requested) pairs a session of the model starts from: a
\* list too short to be used (the category's three defaults run), a two-model
\* list, a list naming one model twice
SessionInputs ==
    { <<"summarization", <<"deepseek-v3">>>>,
      <<"code", <<"gpt-4o", "claude-3-haiku">>>>,
      <<"math", <<"gpt-4o", "gpt-4o">>>> }

VARIABLES
    task_type,        \* the session's category
    requested,        \* the caller's model list
    models,           \* the participating backends, in request order
    current_mode,     \* the mode resolved for this session
    pc,               \* where the generator stream_ab_test stands
    tstate,           \* per task: "none", "streaming", "inserting", "finished"
    produced,         \* per task: chunks its backend stream has yielded
    final_tokens,     \* per task: tokens_used of final_data, 0 while None
    failed,           \* per task: it ended in its except branch
    queue,            \* the shared asyncio.Queue, head first
    out,              \* the events the generator has yielded, in order
    models_done,      \* the draining loop's counter
    ab_tests,         \* TRUE once the session record is inserted
    ab_results,       \* the result records inserted for the session
    marked_at_abort   \* tasks that had their final marker when the consumer aborted

abVars == <<task_type, requested, models, current_mode, pc, tstate, produced,
            final_tokens, failed, queue, out, models_done, ab_tests,
            ab_results, marked_at_abort>>

(* main.py: the state of one /api/completion request *)

\* the request, its local variables and what it has done so far, as one record
VARIABLE request

reqVars == <<request>>

\* the CompletionRequest: [model, stream]; model "" is None
req == request.req
\* classify(req.prompt): [task_type, complexity, confidence]
classification == request.classification
\* the local variable model of completion and its callees
model == request.model
\* the local variable reason
reason == request.reason
\* the local variable was_routed
was_routed == request.was_routed
\* the local variable fallback, "" while unassigned
fallback == request.fallback
\* the local variable current_mode of the request
request_mode == request.current_mode
\* where the request stands
rpc == request.rpc
\* the backend completion calls started: [model, gateway]
invocations == request.invocations
\* chunks the running backend call has yielded
chunks == request.chunks
\* what the backend call delivered: [tokens_used, latency_ms]
result == request.result
\* the events _stream_response has yielded, in order
events == request.events
\* what the one-shot request returned, NoResponse before
response == request.response
\* the request records inserted
requests == request.requests

(* ab_testing.py: the state of one buffered comparison, run_ab_test *)

\* the call of run_ab_test: where it stands, its local variables, what it has
\* inserted and returned, as one record
VARIABLE run

runVars == <<run>>

(* classifier.py, router.py, ab_testing.py: one call of a pure function *)

\* the function called, its arguments and what it returned, as one record
VARIABLE call

callVars == <<call>>

vars == <<cfgVars, modeVars, abVars, reqVars, runVars, callVars>>

total_models == Len(models)

Launched == 1 .. total_models

\* the items a task puts on the queue, and the events the generator yields
ChunkItem(i, k) ==
    [type |-> "chunk", model |-> models[i], task |-> i, k |-> k,
     latency_ms |-> 0, tokens_used |-> 0, cost_cents |-> 0, error |-> FALSE]

DoneItem(i, tokens) ==
    [type |-> "model_done", model |-> models[i], task |-> i, k |-> 0,
     latency_ms |-> LATENCY_RANGES[models[i]][1], tokens_used |-> tokens,
     cost_cents |-> calculate_cost(models[i], tokens), error |-> FALSE]

ErrorItem(i) ==
    [type |-> "model_done", model |-> models[i], task |-> i, k |-> 0,
     latency_ms |-> 0, tokens_used |-> 0, cost_cents |-> 0, error |-> TRUE]

SessionEvent(type) ==
    [type |-> type, model |-> "", task |-> 0, k |-> 0,
     latency_ms |-> 0, tokens_used |-> 0, cost_cents |-> 0, error |-> FALSE]

AllTasksDone == \A i \in Launched : tstate[i] = "finished"

ChunksProduced == produced[1] + produced[2] + produced[3]

\* lines 122-126 (and main.py 136-140): get_mode(), then check_spend_cap()
\* when it said live; the mode of the request and the flag and date left
ResolveMode(key, fd, fdd, day, total) ==
    LET g == get_mode(key, fd, fdd, day)
    IN  IF g.ret = "live"
        THEN LET c == check_spend_cap(total, g.forced_demo, g.forced_demo_date, day)
             IN  [mode |-> IF c.ret THEN "live" ELSE "demo",
                  forced_demo |-> c.forced_demo,
                  forced_demo_date |-> c.forced_demo_date]
        ELSE [mode |-> "demo", forced_demo |-> g.forced_demo,
              forced_demo_date |-> g.forced_demo_date]

\* stream_ab_test up to its first yield: the session record is inserted, the
\* mode resolved, the start event yielded
Begin ==
    /\ pc = "init"
    /\ ab_tests' = TRUE
    /\ LET r == ResolveMode(openrouter_api_key, forced_demo, forced_demo_date,
                            today, ledger)
       IN  /\ current_mode' = r.mode
           /\ forced_demo' = r.forced_demo
           /\ forced_demo_date' = r.forced_demo_date
    /\ out' = <<SessionEvent("start")>>
    /\ pc' = "start_yielded"
    /\ UNCHANGED <<openrouter_api_key, today, ledger, modeVars, reqVars, runVars, callVars,
                   task_type,
                   requested, models, tstate, produced, final_tokens, failed,
                   queue, models_done, ab_results, marked_at_abort>>

\* a variant of the failed insertion that goes on to the start event
BeginFail_still_starts ==
    /\ pc = "init"
    /\ out' = <<SessionEvent("start")>>
    /\ pc' = "start_yielded"
    /\ UNCHANGED <<cfgVars, modeVars, reqVars, runVars, callVars,
                   task_type, requested, models,
                   current_mode, tstate, produced, final_tokens, failed, queue,
                   models_done, ab_tests, ab_results, marked_at_abort>>

\* insert_ab_test raises: the generator ends with the exception
BeginFail ==
    /\ pc = "init"
    /\ pc' = "raised"
    /\ UNCHANGED <<cfgVars, modeVars, reqVars, runVars, callVars,
                   task_type, requested, models,
                   current_mode, tstate, produced, final_tokens, failed, queue,
                   out, models_done, ab_tests, ab_results, marked_at_abort>>

\* the consumer asks for the next event: the queue and one task per model are
\* created, the draining loop is entered and waits on the queue
Launch ==
    /\ pc = "start_yielded"
    /\ tstate' = [i \in Tasks |-> IF i \in Launched THEN "streaming" ELSE "none"]
    /\ pc' = "wait"
    /\ UNCHANGED <<cfgVars, modeVars, reqVars, runVars, callVars,
                   task_type, requested, models,
                   current_mode, produced, final_tokens, failed, queue, out,
                   models_done, ab_tests, ab_results, marked_at_abort>>

(* stream_model(model): one task per participating backend *)

\* lines 137-141: the gateway task i streams from, by the mode the session
\* resolved before it created the tasks
TaskGateway(i) == Gateway(current_mode)

\* the backend stream yields a chunk; the task puts it on the queue
GenChunk(i) ==
    /\ tstate[i] = "streaming"
    /\ ChunksProduced < MaxChunks
    /\ produced' = [produced EXCEPT ![i] = @ + 1]
    /\ queue' = Append(queue, ChunkItem(i, produced[i] + 1))
    /\ UNCHANGED <<cfgVars, modeVars, reqVars, runVars, callVars,
                   task_type, requested, models,
                   current_mode, pc, tstate, final_tokens, failed, out,
                   models_done, ab_tests, ab_results, marked_at_abort>>

\* the backend stream yields its final "done" marker and ends; the task goes on
\* to insert the result record.  The simulated stream yields at least one chunk
\* before it (a response splits into at least one word); the live stream may
\* yield none.
GenDone(i) ==
    /\ tstate[i] = "streaming"
    /\ current_mode = "live" \/ produced[i] >= 1
    /\ \E t \in TokenCounts : final_tokens' = [final_tokens EXCEPT ![i] = t]
    /\ tstate' = [tstate EXCEPT ![i] = "inserting"]
    /\ UNCHANGED <<cfgVars, modeVars, reqVars, runVars, callVars,
                   task_type, requested, models,
                   current_mode, pc, produced, failed, queue, out, models_done,
                   ab_tests, ab_results, marked_at_abort>>

\* a variant of the except branch that also inserts a zeroed result record
TaskExcept_records_failure(i) ==
    /\ queue' = Append(queue, ErrorItem(i))
    /\ tstate' = [tstate EXCEPT ![i] = "finished"]
    /\ failed' = [failed EXCEPT ![i] = TRUE]
    /\ ab_results' = ab_results \cup
           {[id |-> i, model |-> models[i], tokens_used |-> 0, cost_cents |-> 0]}
    /\ UNCHANGED <<cfgVars, modeVars, reqVars, runVars, callVars,
                   task_type, requested, models,
                   current_mode, pc, produced, final_tokens, out, models_done,
                   ab_tests, marked_at_abort>>

\* a variant of the except branch that ends the sibling tasks too
TaskExcept_cancels_siblings(i) ==
    /\ queue' = Append(queue, ErrorItem(i))
    /\ tstate' = [j \in Tasks |-> IF j \in Launched THEN "finished" ELSE "none"]
    /\ failed' = [failed EXCEPT ![i] = TRUE]
    /\ UNCHANGED <<cfgVars, modeVars, reqVars, runVars, callVars,
                   task_type, requested, models,
                   current_mode, pc, produced, final_tokens, out, models_done,
                   ab_tests, ab_results, marked_at_abort>>

\* lines 171-178: the except branch of the task: a zeroed model_done marked
\* error is put on the queue, nothing is inserted, the task ends
TaskExcept(i) ==
    /\ queue' = Append(queue, ErrorItem(i))
    /\ tstate' = [tstate EXCEPT ![i] = "finished"]
    /\ failed' = [failed EXCEPT ![i] = TRUE]
    /\ UNCHANGED <<cfgVars, modeVars, reqVars, runVars, callVars,
                   task_type, requested, models,
                   current_mode, pc, produced, final_tokens, out, models_done,
                   ab_tests, ab_results, marked_at_abort>>

\* the backend stream raises: the simulated one only before its first chunk
\* (_should_fail), the live one at any point of the transfer
GenFail(i) ==
    /\ tstate[i] = "streaming"
    /\ current_mode = "live" \/ produced[i] = 0
    /\ TaskExcept(i)

\* insert_ab_result succeeds; the task puts its model_done on the queue and ends
InsertOk(i) ==
    /\ tstate[i] = "inserting"
    /\ ab_results' = ab_results \cup
           {[id |-> i, model |-> models[i], tokens_used |-> final_tokens[i],
             cost_cents |-> calculate_cost(models[i], final_tokens[i])]}
    /\ queue' = Append(queue, DoneItem(i, final_tokens[i]))
    /\ tstate' = [tstate EXCEPT ![i] = "finished"]
    /\ UNCHANGED <<cfgVars, modeVars, reqVars, runVars, callVars,
                   task_type, requested, models,
                   current_mode, pc, produced, final_tokens, failed, out,
                   models_done, ab_tests, marked_at_abort>>

\* insert_ab_result raises: the except branch runs
InsertFail(i) ==
    /\ tstate[i] = "inserting"
    /\ TaskExcept(i)

(* the draining loop of stream_ab_test, lines 187-204 *)

\* a variant of the queue that hands out its newest item first
QueueGet_newest_first(q) ==
    [item |-> q[Len(q)], rest |-> SubSeq(q, 1, Len(q) - 1)]

\* asyncio.Queue.get: the oldest item, and the queue left
QueueGet(q) == [item |-> Head(q), rest |-> Tail(q)]

\* a variant of the loop body that yields complete with the last model_done
Yielded_completes_in_loop(item, n) ==
    IF item.type = "model_done" /\ n = total_models
    THEN <<item, SessionEvent("complete")>>
    ELSE <<item>>

\* lines 191-195: what the loop yields for the item it dequeued, n being the
\* counter after the item
Yielded(item, n) == <<item>>

\* line 189 returns an item: it is yielded as a chunk or a model_done event;
\* a model_done is counted; the loop ends when the count reaches the number of
\* models (line 187)
DrainGet ==
    /\ pc = "wait"
    /\ queue # <<>>
    /\ LET g == QueueGet(queue)
           n == IF g.item.type = "model_done" THEN models_done + 1
                ELSE models_done
       IN  /\ queue' = g.rest
           /\ models_done' = n
           /\ out' = out \o Yielded(g.item, n)
           /\ pc' = IF n < total_models THEN "wait" ELSE "gather"
    /\ UNCHANGED <<cfgVars, modeVars, reqVars, runVars, callVars,
                   task_type, requested, models,
                   current_mode, tstate, produced, final_tokens, failed,
                   ab_tests, ab_results, marked_at_abort>>

\* line 189 times out: the queue stayed empty for the timeout, the pending get
\* is cancelled and TimeoutError is scheduled for the generator.  The generator
\* resumes in a later step of the event loop; tasks that are ready run before it.
DrainTimeout ==
    /\ pc = "wait"
    /\ queue = <<>>
    /\ pc' = "timeout"
    /\ UNCHANGED <<cfgVars, modeVars, reqVars, runVars, callVars,
                   task_type, requested, models,
                   current_mode, tstate, produced, final_tokens, failed, queue,
                   out, models_done, ab_tests, ab_results, marked_at_abort>>

\* lines 196-199: the except branch: leave the loop when every task is done,
\* else wait on the queue again
DrainCheck ==
    /\ pc = "timeout"
    /\ pc' = IF AllTasksDone THEN "gather" ELSE "wait"
    /\ UNCHANGED <<cfgVars, modeVars, reqVars, runVars, callVars,
                   task_type, requested, models,
                   current_mode, tstate, produced, final_tokens, failed, queue,
                   out, models_done, ab_tests, ab_results, marked_at_abort>>

\* a variant of the final wait that waits for the counter to reach the number
\* of models
GatherReady_counts_events == models_done = total_models

\* line 202: asyncio.gather(*tasks) returns once every task is done
GatherReady == AllTasksDone

\* lines 202-204: the tasks are awaited, the complete event is yielded
Complete ==
    /\ pc = "gather"
    /\ GatherReady
    /\ out' = Append(out, SessionEvent("complete"))
    /\ pc' = "complete"
    /\ UNCHANGED <<cfgVars, modeVars, reqVars, runVars, callVars,
                   task_type, requested, models,
                   current_mode, tstate, produced, final_tokens, failed, queue,
                   models_done, ab_tests, ab_results, marked_at_abort>>

\* the consumer closes the stream before complete (client disconnect): the
\* generator is ended where it is suspended.  It has no cleanup: the tasks it
\* created are not cancelled and go on running.
Abort ==
    /\ pc \in {"start_yielded", "wait", "timeout", "gather"}
    /\ pc' = "aborted"
    /\ marked_at_abort' = {i \in Launched : tstate[i] \in {"inserting", "finished"}}
    /\ UNCHANGED <<cfgVars, modeVars, reqVars, runVars, callVars,
                   task_type, requested, models,
                   current_mode, tstate, produced, final_tokens, failed, queue,
                   out, models_done, ab_tests, ab_results>>


-----------------------------------------------------------------------------
(* ab_testing.py: the buffered comparison, run_ab_test, lines 30-100 *)

\* run_ab_test is called with the arguments of the session: task_type, models

\* the dict run_single returns for an answer of tokens tokens (lines 74-80)
Outcome(i, tokens) ==
    [model |-> models[i], latency_ms |-> LATENCY_RANGES[models[i]][1],
     tokens_used |-> tokens, cost_cents |-> calculate_cost(models[i], tokens),
     error |-> FALSE]

\* the dict run_single returns from its except branch (lines 81-89)
ErrorOutcome(i) ==
    [model |-> models[i], latency_ms |-> 0, tokens_used |-> 0,
     cost_cents |-> 0, error |-> TRUE]

NoOutcome ==
    [model |-> "", latency_ms |-> 0, tokens_used |-> 0, cost_cents |-> 0,
     error |-> FALSE]

\* the call of run_ab_test before its first step
RunStart ==
    [pc |-> "init",
     current_mode |-> "demo",
     rstate |-> [i \in Tasks |-> "none"],
     gateway |-> [i \in Tasks |-> "none"],
     tokens |-> [i \in Tasks |-> 0],
     results |-> [i \in Tasks |-> NoOutcome],
     ab_tests |-> FALSE,
     ab_results |-> {},
     returned |-> <<>>]

\* lines 37-51, 91-92: the session record is inserted, the mode resolved, one
\* run_single per model is started under gather; each picks its gateway by the
\* mode (lines 55-59)
RunBegin ==
    /\ run.pc = "init"
    /\ LET r == ResolveMode(openrouter_api_key, forced_demo, forced_demo_date,
                            today, ledger)
       IN  /\ forced_demo' = r.forced_demo
           /\ forced_demo_date' = r.forced_demo_date
           /\ run' = [run EXCEPT
                         !.ab_tests = TRUE,
                         !.current_mode = r.mode,
                         !.rstate = [i \in Tasks |->
                                        IF i \in Launched THEN "calling" ELSE "none"],
                         !.gateway = [i \in Tasks |->
                                        IF i \in Launched THEN Gateway(r.mode)
                                        ELSE "none"],
                         !.pc = "gather"]
    /\ UNCHANGED <<openrouter_api_key, today, ledger, modeVars, abVars, reqVars,
                   callVars>>

\* insert_ab_test raises: run_ab_test ends with the exception
RunBeginFail ==
    /\ run.pc = "init"
    /\ run' = [run EXCEPT !.pc = "raised"]
    /\ UNCHANGED <<cfgVars, modeVars, abVars, reqVars, callVars>>

\* lines 55-61: the backend call of run_single(models[i]) returns an answer of
\* tokens tokens
RunSingleAnswer(i, tokens) ==
    /\ run.pc = "gather"
    /\ run.rstate[i] = "calling"
    /\ run' = [run EXCEPT !.tokens[i] = tokens, !.rstate[i] = "inserting"]
    /\ UNCHANGED <<cfgVars, modeVars, abVars, reqVars, callVars>>

\* lines 81-89: the backend call raises; the except branch returns the zeroed
\* dict marked error and inserts nothing
RunSingleRaise(i) ==
    /\ run.pc = "gather"
    /\ run.rstate[i] = "calling"
    /\ run' = [run EXCEPT !.results[i] = ErrorOutcome(i), !.rstate[i] = "returned"]
    /\ UNCHANGED <<cfgVars, modeVars, abVars, reqVars, callVars>>

\* lines 61-80: the cost is computed, the result record inserted, the dict
\* returned
RunSingleInsert(i) ==
    /\ run.pc = "gather"
    /\ run.rstate[i] = "inserting"
    /\ run' = [run EXCEPT
                  !.ab_results = @ \cup
                      {[id |-> i, model |-> models[i],
                        tokens_used |-> run.tokens[i],
                        cost_cents |-> calculate_cost(models[i], run.tokens[i])]},
                  !.results[i] = Outcome(i, run.tokens[i]),
                  !.rstate[i] = "returned"]
    /\ UNCHANGED <<cfgVars, modeVars, abVars, reqVars, callVars>>

\* insert_ab_result raises: the except branch returns the dict marked error
RunSingleInsertFail(i) ==
    /\ run.pc = "gather"
    /\ run.rstate[i] = "inserting"
    /\ run' = [run EXCEPT !.results[i] = ErrorOutcome(i), !.rstate[i] = "returned"]
    /\ UNCHANGED <<cfgVars, modeVars, abVars, reqVars, callVars>>

\* lines 92-100: gather returns the dicts in the order of models; they are
\* returned as results
RunReturn ==
    /\ run.pc = "gather"
    /\ \A i \in Launched : run.rstate[i] = "returned"
    /\ run' = [run EXCEPT
                  !.returned = [i \in Launched |-> run.results[i]],
                  !.pc = "returned"]
    /\ UNCHANGED <<cfgVars, modeVars, abVars, reqVars, callVars>>

-----------------------------------------------------------------------------
(* main.py: the single-request dispatcher, /api/completion *)

\* the request of the gate's caller 1 is the one followed
Self == 1

\* token counts a backend answer reports that the model distinguishes
AnswerTokens == {MinTokens, 100 * MinTokens}

NoResult == [tokens_used |-> 0, latency_ms |-> 0]

NoResponse == [status |-> "none"]

\* the request ended with an exception (HTTP 500, or a stream cut short)
ErrorResponse == [status |-> "error"]

\* a variant of lines 127-133 that routes by the table whatever the request says
route_ignores_override(override, c) ==
    LET sel == select_model(c.task_type, c.complexity)
    IN  [was_routed |-> override = "", model |-> sel.model, reason |-> sel.reason]

\* lines 127-133 of completion: the override or the routing table
route(override, c) ==
    IF override # ""
    THEN [was_routed |-> FALSE, model |-> override,
          reason |-> <<"User-specified model override">>]
    ELSE LET sel == select_model(c.task_type, c.complexity)
         IN  [was_routed |-> TRUE, model |-> sel.model, reason |-> sel.reason]

\* a variant of the fallback lookup that retries the backend that failed
FallbackFor_same_backend(m) == m

\* FALLBACK_ORDER.get(model); the table has an entry for every model, so the
\* branch "no fallback" (main.py 250-251) is never taken
FallbackFor(m) == FALLBACK_ORDER[m]

\* a variant of the record that prices the answer at the primary's rate
RequestRecord_primary_rate(backend, res) ==
    [id |-> Self,
     task_type |-> classification.task_type,
     complexity |-> classification.complexity,
     confidence |-> classification.confidence,
     model |-> backend,
     was_routed |-> was_routed,
     latency_ms |-> res.latency_ms,
     tokens_used |-> res.tokens_used,
     cost_cents |-> calculate_cost(invocations[1].model, res.tokens_used)]

\* the record passed to insert_request for an answer of backend
\* (main.py 191-204, 224-237, 260-274)
RequestRecord(backend, res) ==
    [id |-> Self,
     task_type |-> classification.task_type,
     complexity |-> classification.complexity,
     confidence |-> classification.confidence,
     model |-> backend,
     was_routed |-> was_routed,
     latency_ms |-> res.latency_ms,
     tokens_used |-> res.tokens_used,
     cost_cents |-> calculate_cost(backend, res.tokens_used)]

\* the events of the stream: metadata, chunk (a backend's k-th chunk, or the
\* retry notice naming the fallback) and done
StreamEvent(type) ==
    [type |-> type, model |-> "", k |-> 0, notice |-> FALSE,
     task_type |-> "", complexity |-> 0, confidence |-> 0, reason |-> <<>>,
     was_routed |-> FALSE, latency_ms |-> 0, tokens_used |-> 0,
     cost_cents |-> 0]

MetadataEvent ==
    [StreamEvent("metadata") EXCEPT
        !.task_type = classification.task_type,
        !.complexity = classification.complexity,
        !.confidence = classification.confidence,
        !.model = model, !.reason = reason, !.was_routed = was_routed]

ChunkEvent(backend, n) ==
    [StreamEvent("chunk") EXCEPT !.model = backend, !.k = n]

NoticeEvent(backend) ==
    [StreamEvent("chunk") EXCEPT !.model = backend, !.notice = TRUE]

DoneEvent(rec) ==
    [StreamEvent("done") EXCEPT
        !.latency_ms = rec.latency_ms, !.tokens_used = rec.tokens_used,
        !.cost_cents = rec.cost_cents]

\* the exceptions a backend call can end with, after it yielded n chunks: both
\* gateways raise RuntimeError before anything is delivered only (_should_fail;
\* status code not 200); the live gateway's HTTP client raises its transport
\* errors (connect, read, timeout), which are no RuntimeError, at any point
Failures(mode, n) ==
    (IF n = 0 THEN {"RuntimeError"} ELSE {})
        \cup (IF mode = "live" THEN {"TransportError"} ELSE {})

\* a backend answer: the live gateway reports what the provider counts, the
\* simulated one its estimate
Answers ==
    {[tokens_used |-> t, latency_ms |-> LATENCY_RANGES[m][1]] :
        t \in AnswerTokens, m \in {invocations[Len(invocations)].model}}

Invoke(backend) ==
    Append(invocations, [model |-> backend, gateway |-> Gateway(request_mode)])

\* lines 122-136: classify, route, read the mode
Admit ==
    /\ rpc = "init"
    /\ GetMode(Self)
    /\ LET r == route(req.model, classification)
       IN  request' = [request EXCEPT
                          !.was_routed = r.was_routed,
                          !.model = r.model,
                          !.reason = r.reason,
                          !.current_mode = ret',
                          !.rpc = IF ret' = "live" THEN "check_cap" ELSE "start"]
    /\ UNCHANGED <<abVars, runVars, callVars>>

\* line 138 up to the await inside check_spend_cap
CapQuery ==
    /\ rpc = "check_cap"
    /\ CheckSpendCapQuery(Self)
    /\ request' = [request EXCEPT !.rpc = "await_cap"]
    /\ UNCHANGED <<abVars, runVars, callVars>>

\* lines 138-143: check_spend_cap returns; over the cap the request is served
\* in demo mode
CapDecide ==
    /\ rpc = "await_cap"
    /\ CheckSpendCapDecide(Self)
    /\ request' = [request EXCEPT
                      !.current_mode = IF ret' = "True" THEN "live" ELSE "demo",
                      !.rpc = "start"]
    /\ UNCHANGED <<abVars, runVars, callVars>>

(* _non_stream_response, lines 241-290 *)

\* lines 242-247: the primary call is started
CallPrimary ==
    /\ rpc = "start"
    /\ ~req.stream
    /\ request' = [request EXCEPT !.invocations = Invoke(model),
                                  !.rpc = "primary"]
    /\ UNCHANGED <<cfgVars, modeVars, abVars, runVars, callVars>>

\* the primary call returns its answer
PrimaryReturn ==
    /\ rpc = "primary"
    /\ ~req.stream
    /\ \E a \in Answers :
          request' = [request EXCEPT !.result = a, !.rpc = "respond"]
    /\ UNCHANGED <<cfgVars, modeVars, abVars, runVars, callVars>>

\* lines 248-258: the primary call raises.  RuntimeError: the fallback is
\* looked up, becomes the model, and is called; any other exception leaves the
\* handler
PrimaryRaise ==
    /\ rpc = "primary"
    /\ ~req.stream
    /\ \E e \in Failures(request_mode, 0) :
          IF e = "RuntimeError"
          THEN request' = [request EXCEPT
                              !.fallback = FallbackFor(model),
                              !.model = FallbackFor(model),
                              !.reason = <<"Fallback">> \o reason,
                              !.invocations = Invoke(FallbackFor(model)),
                              !.rpc = "fallback"]
          ELSE request' = [request EXCEPT !.rpc = "error",
                                          !.response = ErrorResponse]
    /\ UNCHANGED <<cfgVars, modeVars, abVars, runVars, callVars>>

\* the fallback call returns its answer
FallbackReturn ==
    /\ rpc = "fallback"
    /\ ~req.stream
    /\ \E a \in Answers :
          request' = [request EXCEPT !.result = a, !.rpc = "respond"]
    /\ UNCHANGED <<cfgVars, modeVars, abVars, runVars, callVars>>

\* the fallback call raises: the exception leaves the handler
FallbackRaise ==
    /\ rpc = "fallback"
    /\ ~req.stream
    /\ Failures(request_mode, 0) # {}
    /\ request' = [request EXCEPT !.rpc = "error", !.response = ErrorResponse]
    /\ UNCHANGED <<cfgVars, modeVars, abVars, runVars, callVars>>

\* lines 260-290: the cost is computed, the record inserted, the response
\* returned
Respond ==
    /\ rpc = "respond"
    /\ LET rec == RequestRecord(model, result)
       IN  request' = [request EXCEPT
                          !.requests = requests \cup {rec},
                          !.response = [status |-> "ok",
                                        metadata |-> MetadataEvent,
                                        tokens_used |-> rec.tokens_used,
                                        latency_ms |-> rec.latency_ms,
                                        cost_cents |-> rec.cost_cents],
                          !.rpc = "done"]
    /\ UNCHANGED <<cfgVars, modeVars, abVars, runVars, callVars>>

\* insert_request raises: the exception leaves the handler
RespondFail ==
    /\ rpc = "respond"
    /\ request' = [request EXCEPT !.rpc = "error", !.response = ErrorResponse]
    /\ UNCHANGED <<cfgVars, modeVars, abVars, runVars, callVars>>

(* _stream_response, lines 159-238 *)

\* a variant of the first step that starts the backend call before it yields
YieldMetadata_after_call ==
    /\ rpc = "start"
    /\ req.stream
    /\ request' = [request EXCEPT !.invocations = Invoke(model),
                                  !.events = <<MetadataEvent>>,
                                  !.rpc = "metadata_yielded"]
    /\ UNCHANGED <<cfgVars, modeVars, abVars, runVars, callVars>>

\* lines 159-170: the metadata event is yielded
YieldMetadata ==
    /\ rpc = "start"
    /\ req.stream
    /\ request' = [request EXCEPT !.events = <<MetadataEvent>>,
                                  !.rpc = "metadata_yielded"]
    /\ UNCHANGED <<cfgVars, modeVars, abVars, runVars, callVars>>

\* lines 172-183: the consumer asks for the next event; the primary stream is
\* created and its iteration begins
StreamPrimary ==
    /\ rpc = "metadata_yielded"
    /\ request' = [request EXCEPT !.invocations = Invoke(model),
                                  !.chunks = 0,
                                  !.rpc = "primary"]
    /\ UNCHANGED <<cfgVars, modeVars, abVars, runVars, callVars>>

\* lines 183-186: the primary stream yields a chunk, which is forwarded
PrimaryChunk ==
    /\ rpc = "primary"
    /\ req.stream
    /\ chunks < MaxChunks
    /\ request' = [request EXCEPT
                      !.chunks = chunks + 1,
                      !.events = Append(events, ChunkEvent(model, chunks + 1))]
    /\ UNCHANGED <<cfgVars, modeVars, abVars, runVars, callVars>>

\* lines 187-190: the primary stream yields its done marker and ends.  The
\* simulated stream yields at least one chunk before it.
PrimaryDone ==
    /\ rpc = "primary"
    /\ req.stream
    /\ request_mode = "live" \/ chunks >= 1
    /\ \E a \in Answers :
          request' = [request EXCEPT !.result = a, !.rpc = "insert"]
    /\ UNCHANGED <<cfgVars, modeVars, abVars, runVars, callVars>>

\* a variant of the last step of the primary stream that yields the done
\* event and leaves the insertion for later
StreamInsert_yields_first ==
    /\ rpc = "insert"
    /\ request' = [request EXCEPT
                      !.events = Append(events, DoneEvent(RequestRecord(model, result))),
                      !.rpc = "done"]
    /\ UNCHANGED <<cfgVars, modeVars, abVars, runVars, callVars>>

\* lines 191-206: the record of the primary's answer is inserted, the done
\* event is yielded
StreamInsert ==
    /\ rpc = "insert"
    /\ LET rec == RequestRecord(model, result)
       IN  request' = [request EXCEPT
                          !.requests = requests \cup {rec},
                          !.events = Append(events, DoneEvent(rec)),
                          !.rpc = "done"]
    /\ UNCHANGED <<cfgVars, modeVars, abVars, runVars, callVars>>

\* insert_request raises (a storage error, no RuntimeError): the exception
\* leaves the generator
StreamInsertFail ==
    /\ rpc \in {"insert", "insert_fallback"}
    /\ request' = [request EXCEPT !.rpc = "error", !.response = ErrorResponse]
    /\ UNCHANGED <<cfgVars, modeVars, abVars, runVars, callVars>>

\* lines 208-212: the primary stream raises.  RuntimeError: the fallback is
\* looked up and the retry notice is yielded; any other exception leaves the
\* generator
PrimaryStreamRaise ==
    /\ rpc = "primary"
    /\ req.stream
    /\ \E e \in Failures(request_mode, chunks) :
          IF e = "RuntimeError"
          THEN request' = [request EXCEPT
                              !.fallback = FallbackFor(model),
                              !.events = Append(events,
                                                NoticeEvent(FallbackFor(model))),
                              !.rpc = "notice_yielded"]
          ELSE request' = [request EXCEPT !.rpc = "error",
                                          !.response = ErrorResponse]
    /\ UNCHANGED <<cfgVars, modeVars, abVars, runVars, callVars>>

\* lines 214-220: the fallback stream is created and its iteration begins
StreamFallback ==
    /\ rpc = "notice_yielded"
    /\ request' = [request EXCEPT !.invocations = Invoke(fallback),
                                  !.chunks = 0,
                                  !.rpc = "fallback"]
    /\ UNCHANGED <<cfgVars, modeVars, abVars, runVars, callVars>>

\* lines 220-222: the fallback stream yields a chunk, which is forwarded
FallbackChunk ==
    /\ rpc = "fallback"
    /\ req.stream
    /\ chunks < MaxChunks
    /\ request' = [request EXCEPT
                      !.chunks = chunks + 1,
                      !.events = Append(events, ChunkEvent(fallback, chunks + 1))]
    /\ UNCHANGED <<cfgVars, modeVars, abVars, runVars, callVars>>

\* lines 223-224: the fallback stream yields its done marker
FallbackDone ==
    /\ rpc = "fallback"
    /\ req.stream
    /\ request_mode = "live" \/ chunks >= 1
    /\ \E a \in Answers :
          request' = [request EXCEPT !.result = a, !.rpc = "insert_fallback"]
    /\ UNCHANGED <<cfgVars, modeVars, abVars, runVars, callVars>>

\* lines 224-238: the record of the fallback's answer is inserted, the done
\* event is yielded; the fallback stream then ends
FallbackInsert ==
    /\ rpc = "insert_fallback"
    /\ LET rec == RequestRecord(fallback, result)
       IN  request' = [request EXCEPT
                          !.requests = requests \cup {rec},
                          !.events = Append(events, DoneEvent(rec)),
                          !.rpc = "done"]
    /\ UNCHANGED <<cfgVars, modeVars, abVars, runVars, callVars>>

\* the fallback stream raises inside the except branch: the exception leaves
\* the generator
FallbackStreamRaise ==
    /\ rpc = "fallback"
    /\ req.stream
    /\ Failures(request_mode, chunks) # {}
    /\ request' = [request EXCEPT !.rpc = "error", !.response = ErrorResponse]
    /\ UNCHANGED <<cfgVars, modeVars, abVars, runVars, callVars>>

-----------------------------------------------------------------------------
(* main.py: calls of the pure functions: /api/classify (lines 103-117) calls *)
(* classify and select_model, /api/ab-test (line 301) get_ab_models         *)

NoClassification == [task_type |-> "", complexity |-> 0, confidence |-> 0]

NoSelection == [model |-> "", reason |-> <<>>]

\* a prompt to classify (and to route by its classification)
ClassifyCall(p) ==
    [fn |-> "classify", prompt |-> p, result |-> NoClassification,
     again |-> NoClassification, selected |-> NoSelection]

\* a category and a complexity to route
SelectCall(t, c) ==
    [fn |-> "select_model", prompt |-> "",
     result |-> [task_type |-> t, complexity |-> c, confidence |-> 0],
     again |-> NoClassification, selected |-> NoSelection]

\* a category and a requested list to choose the compared models from
AbModelsCall(t, names) ==
    [fn |-> "get_ab_models", task_type |-> t, requested |-> names,
     returned |-> FALSE, models |-> <<>>]

\* main.py 105: result = classify(req.prompt)
Classify ==
    /\ call.fn = "classify"
    /\ call.result = NoClassification
    /\ call' = [call EXCEPT !.result = classify(call.prompt)]
    /\ UNCHANGED <<cfgVars, modeVars, abVars, reqVars, runVars>>

\* a later request with the same prompt: classify is called again
ClassifyAgain ==
    /\ call.fn = "classify"
    /\ call.result # NoClassification
    /\ call.again = NoClassification
    /\ call' = [call EXCEPT !.again = classify(call.prompt)]
    /\ UNCHANGED <<cfgVars, modeVars, abVars, reqVars, runVars>>

\* main.py 106: select_model(result["task_type"], result["complexity"])
SelectModel ==
    /\ call.fn \in {"classify", "select_model"}
    /\ call.result # NoClassification
    /\ call.selected = NoSelection
    /\ call' = [call EXCEPT
                   !.selected = select_model(call.result.task_type,
                                             call.result.complexity)]
    /\ UNCHANGED <<cfgVars, modeVars, abVars, reqVars, runVars>>

\* main.py 301: models = get_ab_models(task_type, req.models)
GetAbModels ==
    /\ call.fn = "get_ab_models"
    /\ ~call.returned
    /\ call' = [call EXCEPT
                   !.models = get_ab_models(call.task_type, call.requested),
                   !.returned = TRUE]
    /\ UNCHANGED <<cfgVars, modeVars, abVars, reqVars, runVars>>

-----------------------------------------------------------------------------
(* main.py 306-314, ab_testing.py 207-212: the vote on a comparison session *)

\* ids of the sessions stored in ab_tests, and an id that is not stored
StoredIds == {"t1", "t2"}

TestIds == StoredIds \cup {"unknown"}

\* the row insert_ab_test stores for a comparison of category t with the
\* requested list names (ab_testing.py 39-45); winner_model is NULL
SessionRow(t, names, prompt) ==
    [prompt |-> prompt, task_type |-> t, complexity |-> 10,
     models |-> get_ab_models(t, names), winner_model |-> ""]

\* the rows insert_ab_result stores for it, one per participating backend
ResultRows(id, row) ==
    {[ab_test_id |-> id, model |-> row.models[i], tokens_used |-> MinTokens,
      cost_cents |-> calculate_cost(row.models[i], MinTokens)] :
        i \in 1 .. Len(row.models)}

\* concurrent POST /api/ab-test/{test_id}/vote requests over a store
VoteCall(tests, polls) ==
    [fn |-> "vote",
     ab_tests |-> tests,
     ab_results |-> UNION {ResultRows(id, tests[id]) : id \in StoredIds},
     votes |-> polls]

\* a variant of the lookup that does not test the row it fetched
VoteLookup_unchecked(v) ==
    /\ call.fn = "vote"
    /\ call.votes[v].pc = "init"
    /\ call' = [call EXCEPT !.votes[v].pc = "found"]
    /\ UNCHANGED <<cfgVars, modeVars, abVars, reqVars, runVars>>

\* lines 309-311: the session is looked up; HTTPException 404 if no row has
\* the id
VoteLookup(v) ==
    /\ call.fn = "vote"
    /\ call.votes[v].pc = "init"
    /\ call' = IF call.votes[v].test_id \in DOMAIN call.ab_tests
               THEN [call EXCEPT !.votes[v].pc = "found"]
               ELSE [call EXCEPT !.votes[v].pc = "done",
                                 !.votes[v].status = "not_found"]
    /\ UNCHANGED <<cfgVars, modeVars, abVars, reqVars, runVars>>

\* lines 313-314, record_vote: UPDATE ab_tests SET winner_model = :winner
\* WHERE id = :id; the handler answers ok
RecordVote(v) ==
    /\ call.fn = "vote"
    /\ call.votes[v].pc = "found"
    /\ LET id == call.votes[v].test_id
       IN  call' = [call EXCEPT
                       !.ab_tests = [i \in DOMAIN call.ab_tests |->
                                        IF i = id
                                        THEN [call.ab_tests[i] EXCEPT
                                                 !.winner_model = call.votes[v].winner_model]
                                        ELSE call.ab_tests[i]],
                       !.votes[v].pc = "done",
                       !.votes[v].status = "ok"]
    /\ UNCHANGED <<cfgVars, modeVars, abVars, reqVars, runVars>>

-----------------------------------------------------------------------------
(* main.py 31-52, 85-91, config.py 8-11: the rate limiter of one client *)

DEMO_RATE_LIMIT_WINDOW == 60
DEMO_RATE_LIMIT_MAX == 30
LIVE_RATE_LIMIT_WINDOW == 3600
LIVE_RATE_LIMIT_MAX == 20

\* _get_rate_limit_params given what get_mode returned
get_rate_limit_params(mode) ==
    IF mode = "live"
    THEN [window |-> LIVE_RATE_LIMIT_WINDOW, max_req |-> LIVE_RATE_LIMIT_MAX]
    ELSE [window |-> DEMO_RATE_LIMIT_WINDOW, max_req |-> DEMO_RATE_LIMIT_MAX]

\* the limiter of one client: time.time() in seconds, the list
\* _rate_limit[client_ip], every time a call was admitted (history, not
\* program state), what the last call returned and the pair it applied
RateCall ==
    [fn |-> "check_rate_limit",
     now |-> 0,
     ticks |-> 0,
     rate_limit |-> <<>>,
     admitted |-> <<>>,
     ret |-> "none",
     window |-> 0,
     max_req |-> 0]

\* the request followed arrives on a path under /api/: check_rate_limit reads
\* the pair of the current mode (get_mode is evaluated, with its effect on the
\* flag),
\* drops the entries older than the window, answers False when the list is
\* full and records the time and answers True otherwise
CheckRateLimit ==
    /\ call.fn = "check_rate_limit"
    /\ Len(call.admitted) < MaxCalls
    /\ GetMode(Self)
    /\ LET r    == get_mode(openrouter_api_key, forced_demo, forced_demo_date, today)
           p    == get_rate_limit_params(r.ret)
           kept == SelectSeq(call.rate_limit, LAMBDA t : call.now - t < p.window)
           ok   == Len(kept) < p.max_req
       IN  call' = [call EXCEPT
                       !.rate_limit = IF ok THEN Append(kept, call.now) ELSE kept,
                       !.admitted = IF ok THEN Append(@, call.now) ELSE @,
                       !.ret = BoolStr(ok),
                       !.window = p.window,
                       !.max_req = p.max_req]
    /\ UNCHANGED <<abVars, reqVars, runVars>>

\* time passes: one window of either mode
Tick ==
    /\ call.fn = "check_rate_limit"
    /\ call.ticks < MaxTicks
    /\ \E d \in {DEMO_RATE_LIMIT_WINDOW, LIVE_RATE_LIMIT_WINDOW} :
          call' = [call EXCEPT !.now = @ + d, !.ticks = @ + 1]
    /\ UNCHANGED <<cfgVars, modeVars, abVars, reqVars, runVars>>

-----------------------------------------------------------------------------
(* Specifications *)

GateIdle ==
    /\ mpc = [c \in Callers |-> "idle"]
    /\ spent = [c \in Callers |-> 0]
    /\ op = [name |-> "none", caller |-> 0]
    /\ ret = "none"
    /\ flip_day = NoDate

SessionAt(t, names) ==
    /\ task_type = t
    /\ requested = names
    /\ models = get_ab_models(t, names)
    /\ current_mode = "demo"
    /\ pc = "init"
    /\ tstate = [i \in Tasks |-> "none"]
    /\ produced = [i \in Tasks |-> 0]
    /\ final_tokens = [i \in Tasks |-> 0]
    /\ failed = [i \in Tasks |-> FALSE]
    /\ queue = <<>>
    /\ out = <<>>
    /\ models_done = 0
    /\ ab_tests = FALSE
    /\ ab_results = {}
    /\ marked_at_abort = {}

RequestAt(r, c) ==
    request = [req |-> r,
               classification |-> c,
               model |-> "",
               reason |-> <<>>,
               was_routed |-> FALSE,
               fallback |-> "",
               current_mode |-> "demo",
               rpc |-> "init",
               invocations |-> <<>>,
               chunks |-> 0,
               result |-> NoResult,
               events |-> <<>>,
               response |-> NoResponse,
               requests |-> {}]

\* no request is followed
RequestIdle ==
    RequestAt([model |-> "", stream |-> FALSE],
              [task_type |-> "qa", complexity |-> 10, confidence |-> 300])

\* no buffered comparison is followed
RunIdle == run = [pc |-> "off"]

\* no function call is followed
CallIdle == call = [fn |-> "none"]

\* config.py 17-19 after load_env: a credential or none, the flag unset
ConfigLoaded ==
    /\ openrouter_api_key \in BOOLEAN
    /\ forced_demo = FALSE
    /\ forced_demo_date = NoDate
    /\ today = 0

\* one comparison session, from the call of stream_ab_test
Init ==
    /\ ConfigLoaded
    /\ ledger \in {0, SpendCap}
    /\ openrouter_api_key \/ ledger = 0
    /\ GateIdle
    /\ \E si \in SessionInputs : SessionAt(si[1], si[2])
    /\ RequestIdle
    /\ RunIdle
    /\ CallIdle

TaskStep(i) ==
    \/ GenChunk(i)
    \/ GenDone(i)
    \/ GenFail(i)
    \/ InsertOk(i)
    \/ InsertFail(i)

Drain ==
    \/ Launch
    \/ DrainGet
    \/ DrainTimeout
    \/ DrainCheck
    \/ Complete

\* the consumer reads the stream to its end
Next ==
    \/ Begin
    \/ BeginFail
    \/ Drain
    \/ \E i \in Tasks : TaskStep(i)

Spec == Init /\ [][Next]_vars

\* the consumer may close the stream early
NextAbort ==
    \/ Next
    \/ Abort

SpecAbort == Init /\ [][NextAbort]_vars

\* the consumer reads the stream to its end; the event loop runs every task
\* that is ready and resumes the generator whenever it can go on
FairSpec ==
    /\ Init
    /\ [][Next]_vars
    /\ WF_vars(Drain)
    /\ \A i \in Tasks : WF_vars(TaskStep(i))

\* the serving-mode gate alone, under concurrent callers, a changing ledger
\* and a running clock
InitMode ==
    /\ ConfigLoaded
    /\ ledger \in LedgerValues
    /\ GateIdle
    /\ SessionAt("qa", <<>>)
    /\ RequestIdle
    /\ RunIdle
    /\ CallIdle

NextMode ==
    \/ \E c \in Callers : GetMode(c) /\ UNCHANGED <<abVars, reqVars, runVars, callVars>>
    \/ \E c \in Callers : CheckSpendCapQuery(c) /\ UNCHANGED <<abVars, reqVars, runVars, callVars>>
    \/ \E c \in Callers : CheckSpendCapDecide(c) /\ UNCHANGED <<abVars, reqVars, runVars, callVars>>
    \/ \E c \in Callers : GetModeInfoQuery(c) /\ UNCHANGED <<abVars, reqVars, runVars, callVars>>
    \/ \E c \in Callers : GetModeInfoReturn(c) /\ UNCHANGED <<abVars, reqVars, runVars, callVars>>
    \/ LedgerChange /\ UNCHANGED <<abVars, reqVars, runVars, callVars>>
    \/ AdvanceDay /\ UNCHANGED <<abVars, reqVars, runVars, callVars>>

SpecMode == InitMode /\ [][NextMode]_vars

\* the arguments of a comparison whose streamed variant is not followed
SessionOff(t, names) ==
    /\ task_type = t
    /\ requested = names
    /\ models = get_ab_models(t, names)
    /\ current_mode = "demo"
    /\ pc = "off"
    /\ tstate = [i \in Tasks |-> "none"]
    /\ produced = [i \in Tasks |-> 0]
    /\ final_tokens = [i \in Tasks |-> 0]
    /\ failed = [i \in Tasks |-> FALSE]
    /\ queue = <<>>
    /\ out = <<>>
    /\ models_done = 0
    /\ ab_tests = FALSE
    /\ ab_results = {}
    /\ marked_at_abort = {}

\* no completion request is made
RequestOff == request = [rpc |-> "off"]

\* what classify can return that the model distinguishes: every category, the
\* complexities on both sides of the two band thresholds (in tenths), the
\* default confidence 0.3 and full confidence (in thousandths)
Classifications ==
    {[task_type |-> t, complexity |-> c,
      confidence |-> IF c \in {30, 61} THEN 300 ELSE 1000] :
        t \in TaskType, c \in {30, 31, 60, 61}}

\* the requests: no override or any model, streamed or not
CompletionRequests ==
    {[model |-> m, stream |-> b] : m \in ModelName \cup {""}, b \in BOOLEAN}

\* the state of the gate when the request arrives: without a credential the
\* flag is unset; with one it is unset, or was set today or yesterday
GateAtArrival ==
    /\ openrouter_api_key \in BOOLEAN
    /\ today \in Days
    /\ forced_demo_date \in {NoDate, today, today - 1} \cap (Days \cup {NoDate})
    /\ forced_demo = (forced_demo_date # NoDate)
    /\ openrouter_api_key \/ ~forced_demo
    /\ ledger \in {0, SpendCap}
    /\ mpc = [c \in Callers |-> "idle"]
    /\ spent = [c \in Callers |-> 0]
    /\ op = [name |-> "none", caller |-> 0]
    /\ ret = "none"
    /\ flip_day = forced_demo_date

\* one /api/completion request, from the call of the handler
InitDispatch ==
    /\ GateAtArrival
    /\ SessionAt("qa", <<>>)
    /\ \E r \in CompletionRequests, c \in Classifications : RequestAt(r, c)
    /\ RunIdle
    /\ CallIdle

NextDispatch ==
    \/ Admit
    \/ CapQuery
    \/ CapDecide
    \/ CallPrimary
    \/ PrimaryReturn
    \/ PrimaryRaise
    \/ FallbackReturn
    \/ FallbackRaise
    \/ Respond
    \/ RespondFail
    \/ YieldMetadata
    \/ StreamPrimary
    \/ PrimaryChunk
    \/ PrimaryDone
    \/ StreamInsert
    \/ StreamInsertFail
    \/ PrimaryStreamRaise
    \/ StreamFallback
    \/ FallbackChunk
    \/ FallbackDone
    \/ FallbackInsert
    \/ FallbackStreamRaise

SpecDispatch == InitDispatch /\ [][NextDispatch]_vars

\* the state of the gate when a comparison arrives: the flag unset, the
\* ledger empty or at the cap (without a credential the ledger is empty)
GateAtComparison ==
    /\ ConfigLoaded
    /\ ledger \in {0, SpendCap}
    /\ openrouter_api_key \/ ledger = 0
    /\ GateIdle

\* one call of the service: a streamed comparison, a buffered comparison
\* (/api/ab-test), or a completion request (/api/completion)
InitServe ==
    /\ \/ /\ GateAtComparison
          /\ \E si \in SessionInputs : SessionAt(si[1], si[2])
          /\ RunIdle
          /\ RequestOff
       \/ /\ GateAtComparison
          /\ \E si \in SessionInputs : SessionOff(si[1], si[2])
          /\ run = RunStart
          /\ RequestOff
       \/ /\ GateAtArrival
          /\ SessionOff("qa", <<>>)
          /\ RunIdle
          /\ \E r \in CompletionRequests, c \in Classifications : RequestAt(r, c)
    /\ CallIdle

RunSingle(i) ==
    \/ \E t \in TokenCounts : RunSingleAnswer(i, t)
    \/ RunSingleRaise(i)
    \/ RunSingleInsert(i)
    \/ RunSingleInsertFail(i)

NextRun ==
    \/ RunBegin
    \/ RunBeginFail
    \/ \E i \in Tasks : RunSingle(i)
    \/ RunReturn

NextServe ==
    \/ Next
    \/ NextRun
    \/ NextDispatch

SpecServe == InitServe /\ [][NextServe]_vars

\* main.py 301-302: when the streamed session has ended, run_ab_test is called
\* with the arguments the session was started with
RunCalled ==
    /\ pc \in {"complete", "raised"}
    /\ run.pc = "off"
    /\ run' = RunStart
    /\ UNCHANGED <<cfgVars, modeVars, abVars, reqVars, callVars>>

\* insert_ab_test does in the buffered call what it did in the streamed one
RunBeginAsStreamed ==
    \/ pc = "complete" /\ RunBegin
    \/ pc = "raised" /\ RunBeginFail

\* run_single(models[i]) meets the outcome stream_model(models[i]) met: the
\* backend's answer of final_tokens[i] tokens or its failure, the insertion
\* of the result record or its failure
RunSingleAsStreamed(i) ==
    \/ final_tokens[i] # 0 /\ RunSingleAnswer(i, final_tokens[i])
    \/ final_tokens[i] = 0 /\ failed[i] /\ RunSingleRaise(i)
    \/ ~failed[i] /\ RunSingleInsert(i)
    \/ failed[i] /\ RunSingleInsertFail(i)

\* a streamed comparison read to its end, followed by a buffered comparison of
\* the same arguments whose backends and record store behave as they did in
\* the streamed one
NextCompare ==
    \/ Next
    \/ RunCalled
    \/ RunBeginAsStreamed
    \/ \E i \in Tasks : RunSingleAsStreamed(i)
    \/ RunReturn

SpecCompare == Init /\ [][NextCompare]_vars

\* a streamed comparison in live mode on a day whose single-request records
\* sum to nothing or to just below the cap, followed by the budget check of a
\* later request
InitBudget ==
    /\ ConfigLoaded
    /\ openrouter_api_key
    /\ ledger \in {0, SpendCap - 1}
    /\ GateIdle
    /\ \E si \in SessionInputs : SessionAt(si[1], si[2])
    /\ RequestIdle
    /\ RunIdle
    /\ CallIdle

\* a request arriving after the session calls check_spend_cap: its ledger
\* query sums the table requests (config.py 79-82)
LaterQuery ==
    /\ pc = "complete"
    /\ CheckSpendCapQuery(Self)
    /\ UNCHANGED <<abVars, reqVars, runVars, callVars>>

LaterDecide ==
    /\ CheckSpendCapDecide(Self)
    /\ UNCHANGED <<abVars, reqVars, runVars, callVars>>

NextBudget ==
    \/ Next
    \/ LaterQuery
    \/ LaterDecide

SpecBudget == InitBudget /\ [][NextBudget]_vars

\* another request, concurrent with the one followed
Other == Self + 1

\* the call of the service that is followed has resolved its mode and has not
\* ended
InFlight ==
    \/ pc \in {"start_yielded", "wait", "timeout", "gather"}
    \/ run.pc = "gather"
    \/ rpc \in {"start", "metadata_yielded", "primary", "fallback",
                "notice_yielded", "insert", "insert_fallback", "respond"}

\* What changes the answer of get_mode while the call is in flight:

\* records of other requests bring today's total to the cap
LedgerReachesCap ==
    /\ InFlight
    /\ LedgerChange
    /\ ledger' = SpendCap
    /\ UNCHANGED <<abVars, reqVars, runVars, callVars>>

\* another request that read mode live runs check_spend_cap against it and
\* sets the flag
OtherCapQuery ==
    /\ InFlight
    /\ openrouter_api_key /\ ~forced_demo
    /\ ledger >= SpendCap
    /\ CheckSpendCapQuery(Other)
    /\ UNCHANGED <<abVars, reqVars, runVars, callVars>>

OtherCapDecide ==
    /\ InFlight
    /\ CheckSpendCapDecide(Other)
    /\ UNCHANGED <<abVars, reqVars, runVars, callVars>>

\* midnight passes with the flag set
MidnightInFlight ==
    /\ InFlight
    /\ forced_demo
    /\ AdvanceDay
    /\ UNCHANGED <<abVars, reqVars, runVars, callVars>>

\* another request evaluates get_mode on the new day, which clears the flag
OtherGetMode ==
    /\ InFlight
    /\ forced_demo /\ forced_demo_date # today
    /\ GetMode(Other)
    /\ UNCHANGED <<abVars, reqVars, runVars, callVars>>

\* the comparison followed under a changing gate: two backends
SessionsInFlight == {si \in SessionInputs : si[1] = "code"}

\* the completion requests followed under a changing gate: routed or with an
\* override, streamed or not
RequestsInFlight ==
    {[model |-> m, stream |-> b] : m \in {"", "gemini-1.5-pro"}, b \in BOOLEAN}

\* one call of the service - a streamed comparison, a buffered comparison or
\* a completion request - arriving at a gate with the flag unset
InitFrozen ==
    /\ GateAtComparison
    /\ \/ /\ \E si \in SessionsInFlight : SessionAt(si[1], si[2])
          /\ RunIdle
          /\ RequestOff
       \/ /\ \E si \in SessionsInFlight : SessionOff(si[1], si[2])
          /\ run = RunStart
          /\ RequestOff
       \/ /\ SessionOff("qa", <<>>)
          /\ RunIdle
          /\ \E r \in RequestsInFlight :
                RequestAt(r, [task_type |-> "qa", complexity |-> 61,
                              confidence |-> DefaultConfidence])
    /\ CallIdle

NextFrozen ==
    \/ NextServe
    \/ LedgerReachesCap
    \/ OtherCapQuery
    \/ OtherCapDecide
    \/ MidnightInFlight
    \/ OtherGetMode

SpecFrozen == InitFrozen /\ [][NextFrozen]_vars

\* the vote requests: a stored or an unknown id, any model
VoteRequests ==
    {[test_id |-> id, winner_model |-> m, pc |-> "init", status |-> "none"] :
        id \in TestIds, m \in ModelName}

\* the store holds two sessions that have run, one of them of any input of
\* the model; every caller posts one vote
InitVote ==
    /\ ConfigLoaded
    /\ ~openrouter_api_key
    /\ ledger = 0
    /\ GateIdle
    /\ SessionOff("qa", <<>>)
    /\ RequestOff
    /\ RunIdle
    /\ \E si \in SessionInputs, polls \in [Callers -> VoteRequests] :
          call = VoteCall([id \in StoredIds |->
                              IF id = "t1"
                              THEN SessionRow(si[1], si[2], "p1")
                              ELSE SessionRow("qa", <<>>, "p2")],
                          polls)

NextVote ==
    \/ \E v \in Callers : VoteLookup(v)
    \/ \E v \in Callers : RecordVote(v)

SpecVote == InitVote /\ [][NextVote]_vars

\* What changes the mode between two calls of the limiter:

\* a request that read mode live runs check_spend_cap and sets the flag
RateCapQuery ==
    /\ call.fn = "check_rate_limit"
    /\ openrouter_api_key /\ ~forced_demo
    /\ ledger >= SpendCap
    /\ CheckSpendCapQuery(Other)
    /\ UNCHANGED <<abVars, reqVars, runVars, callVars>>

RateCapDecide ==
    /\ call.fn = "check_rate_limit"
    /\ CheckSpendCapDecide(Other)
    /\ UNCHANGED <<abVars, reqVars, runVars, callVars>>

\* midnight passes with the flag set; the next evaluation of get_mode, the
\* limiter's included, clears it
RateMidnight ==
    /\ call.fn = "check_rate_limit"
    /\ forced_demo
    /\ AdvanceDay
    /\ UNCHANGED <<abVars, reqVars, runVars, callVars>>

\* a client that has made no call yet; with a credential, today's total is
\* at the cap
InitRate ==
    /\ ConfigLoaded
    /\ ledger = IF openrouter_api_key THEN SpendCap ELSE 0
    /\ GateIdle
    /\ SessionOff("qa", <<>>)
    /\ RequestOff
    /\ RunIdle
    /\ call = RateCall

NextRate ==
    \/ CheckRateLimit
    \/ Tick
    \/ RateCapQuery
    \/ RateCapDecide
    \/ RateMidnight

SpecRate == InitRate /\ [][NextRate]_vars

\* the prompts of the model: a beginning followed by an end
PromptHeads ==
    {"",
     "Write a Python function to ",
     "What is ",
     "Translate this into French: ",
     "Summarize the key points of ",
     "Solve the equation ",
     "Write a story about ",
     "First a plan for it, then step-by-step: ",
     "How do you say hello in Spanish, and "}

PromptTails ==
    {"",
     " ",
     "sort a list",
     "hello",
     "xyzzy",
     "2 + 2?",
     "the diagnosis because of liability, given the above",
     "a\nb\nc\nd\ne f",
     "the integral of x^2 if not else, however, compare and analyze the pros and cons"}

Prompts == {h \o t : h \in PromptHeads, t \in PromptTails}

\* complexities, in tenths: 1.0 .. 10.0
Complexities == 10 .. 100

\* the lists a caller can request: none or empty, one model, up to
\* MaxRequested models, repeated or not
RequestedLists == UNION {[1 .. n -> ModelName] : n \in 0 .. MaxRequested}

\* one call of classify (followed by a second call and by select_model), of
\* select_model, or of get_ab_models
InitCalls ==
    /\ ConfigLoaded
    /\ ~openrouter_api_key
    /\ ledger = 0
    /\ GateIdle
    /\ SessionOff("qa", <<>>)
    /\ RequestOff
    /\ RunIdle
    /\ \/ \E p \in Prompts : call = ClassifyCall(p)
       \/ \E t \in TaskType, c \in Complexities : call = SelectCall(t, c)
       \/ \E t \in TaskType, names \in RequestedLists : call = AbModelsCall(t, names)

NextCalls ==
    \/ Classify
    \/ ClassifyAgain
    \/ SelectModel
    \/ GetAbModels

SpecCalls == InitCalls /\ [][NextCalls]_vars

-----------------------------------------------------------------------------
(* Properties of the comparison stream *)

Positions(seq) == 1 .. Len(seq)

CountType(seq, type) == Cardinality({j \in Positions(seq) : seq[j].type = type})

FailedTasks == {i \in Launched : failed[i]}

ChunksOf(i) ==
    LET IsChunkOf(e) == e.type = "chunk" /\ e.task = i
    IN  SelectSeq(out, IsChunkOf)

\* C1: when the stream of a session with N backends has ended with complete,
\* it holds exactly N model_done events and exactly one complete event,
\* however many of the backends failed.
C1_ExactlyNDoneOneComplete ==
    pc = "complete" =>
        /\ CountType(out, "model_done") = total_models
        /\ CountType(out, "complete") = 1

C3_StartFirstCompleteLast ==
    /\ \A j \in Positions(out) :
          /\ (out[j].type = "start") <=> (j = 1)
          /\ (out[j].type = "complete") => (j = Len(out))
    /\ (pc = "complete") <=> (out # <<>> /\ out[Len(out)].type = "complete")
    /\ pc \notin {"init", "raised"} => out # <<>>

\* a stream that ended with complete although every backend failed
C3_Witness ==
    /\ pc = "complete"
    /\ FailedTasks = Launched
    /\ CountType(out, "model_done") = total_models

\* C4: in the stream, once a model_done event for a backend has been emitted,
\* no further event is attributed to that backend: neither a chunk nor a
\* second model_done.
C4_NothingAfterBackendDone ==
    \A a, b \in Positions(out) :
        (a < b /\ out[a].type = "model_done")
            => ~(out[b].type \in {"chunk", "model_done"}
                 /\ out[b].model = out[a].model)

\* C5: the chunk events of one backend task appear in the stream in the order
\* the task produced them: the j-th chunk event of a task is the j-th chunk its
\* backend stream yielded, whatever other tasks' events lie in between.
C5_ChunksInProductionOrder ==
    \A i \in Launched :
        /\ Len(ChunksOf(i)) <= produced[i]
        /\ \A j \in Positions(ChunksOf(i)) : ChunksOf(i)[j].k = j

\* two chunks of one task emitted with an event of another task between them
C5_Witness ==
    \E a, b, c \in Positions(out) :
        /\ a < b /\ b < c
        /\ out[a].type = "chunk" /\ out[c].type = "chunk"
        /\ out[a].task = out[c].task
        /\ out[b].type \in {"chunk", "model_done"}
        /\ out[b].task # out[a].task

\* a step in which task i fails
Fails(i) == ~failed[i] /\ failed'[i]

C6_FailureStep ==
    \A i \in Launched :
        Fails(i) =>
            /\ Len(queue') = Len(queue) + 1
            /\ SubSeq(queue', 1, Len(queue)) = queue
            /\ LET e == queue'[Len(queue')]
               IN  /\ e.type = "model_done" /\ e.model = models[i] /\ e.task = i
                   /\ e.error
                   /\ e.latency_ms = 0 /\ e.tokens_used = 0 /\ e.cost_cents = 0
            /\ \A j \in Launched \ {i} :
                  /\ tstate'[j] = tstate[j]
                  /\ produced'[j] = produced[j]
                  /\ failed'[j] = failed[j]
            /\ pc' = pc /\ out' = out /\ models_done' = models_done

\* a step in which the loop takes an error marker off the queue
C6_ErrorCounted ==
    (queue # <<>> /\ queue' = Tail(queue) /\ Head(queue).error) =>
        /\ out' = Append(out, Head(queue))
        /\ models_done' = models_done + 1
        /\ pc' \in {"wait", "gather"}

C7_EventuallyComplete == (pc = "start_yielded") ~> (pc = "complete")

\* a session that completed after the loop was left through the timeout branch
C7_Witness ==
    /\ pc = "complete"
    /\ models_done < total_models

\* C8: after the consumer aborted the stream, the only result records of the
\* session are those of tasks that had received their completion marker when
\* it aborted.
C8_NoRecordAfterAbort ==
    pc = "aborted" => \A r \in ab_results : r.id \in marked_at_abort

-----------------------------------------------------------------------------
(* Properties of the serving-mode gate *)

\* the step in which caller c's check_spend_cap() returns
Returns(c) == mpc[c] = "await_fetch" /\ mpc'[c] = "idle"

\* C9: check_spend_cap returns False and leaves the flag set exactly when the
\* total its ledger query returned is at or above the cap; the date recorded is
\* today if the call set the flag and is left alone if the flag was already
\* set; below the cap it returns True and changes neither the flag nor the date.
C9_CheckSpendCap ==
    [][\A c \in Callers :
          Returns(c) =>
              IF spent[c] >= DAILY_SPEND_CAP_CENTS * 10000
              THEN /\ ret' = "False"
                   /\ forced_demo'
                   /\ forced_demo_date' =
                          IF forced_demo THEN forced_demo_date ELSE today
              ELSE /\ ret' = "True"
                   /\ forced_demo' = forced_demo
                   /\ forced_demo_date' = forced_demo_date]_vars

\* a call whose query returned exactly the cap, repeated on a later day while
\* the flag was still set: it returned False and the date of the flip stayed
C9_Witness ==
    /\ op.name = "check_spend_cap"
    /\ ret = "False"
    /\ spent[op.caller] = DAILY_SPEND_CAP_CENTS * 10000
    /\ forced_demo
    /\ forced_demo_date # NoDate /\ forced_demo_date < today

\* C10: when get_mode is evaluated on the day check_spend_cap last set the
\* flag, it returns demo, whatever the ledger reads by then.
C10_NoFlapping ==
    (op.name = "get_mode" /\ flip_day # NoDate /\ flip_day = today)
        => ret = "demo"

\* get_mode returned demo with a credential configured, on the day of the
\* flip, after the ledger had dropped below the cap
C10_Witness ==
    /\ op.name = "get_mode"
    /\ openrouter_api_key
    /\ flip_day = today
    /\ ledger < DAILY_SPEND_CAP_CENTS * 10000
    /\ ret = "demo"

\* C11: with a credential configured, a get_mode evaluation that finds the
\* flag set with a date other than today clears the flag and its date and
\* returns live; a set flag is cleared by no other step: not by a get_mode on
\* the day of the flip, not by midnight passing, not by a change of the
\* ledger, not by check_spend_cap.
C11_LazyDayReset ==
    [][/\ (op'.name = "get_mode" /\ openrouter_api_key /\ forced_demo
            /\ forced_demo_date # today)
           => (~forced_demo' /\ forced_demo_date' = NoDate /\ ret' = "live")
       /\ (forced_demo /\ ~forced_demo')
           => (op'.name = "get_mode" /\ openrouter_api_key
               /\ forced_demo_date # today)]_vars

\* get_mode returned live on a day after the flip, with the flag and its date
\* cleared, while the ledger still read at or above the cap
C11_Witness ==
    /\ op.name = "get_mode"
    /\ ret = "live"
    /\ flip_day # NoDate /\ flip_day < today
    /\ ~forced_demo /\ forced_demo_date = NoDate
    /\ ledger >= DAILY_SPEND_CAP_CENTS * 10000

\* C12: without a credential get_mode returns demo, whatever the flag, its
\* date, the ledger and the day are; with a credential and the flag never set
\* it returns live.
C12_ModeWithoutCredential ==
    /\ \A fd \in BOOLEAN, fdd \in Days \cup {NoDate}, day \in Days :
          get_mode(FALSE, fd, fdd, day).ret = "demo"
    /\ op.name = "get_mode" =>
          /\ ~openrouter_api_key => ret = "demo"
          /\ (openrouter_api_key /\ flip_day = NoDate) => ret = "live"

\* get_mode returned demo without a credential, on a later day, with the
\* ledger below the cap and the flag unset
C12_Witness ==
    /\ op.name = "get_mode"
    /\ ~openrouter_api_key
    /\ ~forced_demo
    /\ today > 0
    /\ ledger = 0
    /\ ret = "demo"

\* C13: the flag goes from unset to set only in the step in which a
\* check_spend_cap call returns, and only when the total its query returned is
\* at or above the cap: no evaluation of get_mode (by a request handler, by
\* get_mode_info, by the rate limiter), no other step of get_mode_info, no
\* ledger change and no midnight sets it.
C13_SingleFlipPoint ==
    [][(~forced_demo /\ forced_demo') =>
          /\ op'.name = "check_spend_cap"
          /\ Returns(op'.caller)
          /\ spent[op'.caller] >= DAILY_SPEND_CAP_CENTS * 10000]_vars

\* check_spend_cap has just set the flag while another caller is inside
\* get_mode_info, which read live before its query
C13_Witness ==
    /\ op.name = "check_spend_cap"
    /\ forced_demo /\ flip_day = today /\ forced_demo_date = today
    /\ \E c \in Callers : c # op.caller /\ mpc[c] = "await_info_live"

-----------------------------------------------------------------------------
(* Properties of the single-request dispatcher *)

\* the backend the routing decision chose: the model of the first call
Primary == IF invocations # <<>> THEN invocations[1].model ELSE model

\* the primary call has raised: the fallback was looked up, or the request
\* ended in an exception after one call that delivered nothing
PrimaryRaised ==
    \/ fallback # ""
    \/ rpc = "error" /\ Len(invocations) = 1 /\ result = NoResult

\* the fallback call has raised too
FallbackRaised == rpc = "error" /\ Len(invocations) = 2 /\ result = NoResult

CountEvents(type) == Cardinality({j \in 1 .. Len(events) : events[j].type = type})

Notices == {j \in 1 .. Len(events) : events[j].notice}

\* C14: a request makes at most two backend calls, the second one to
\* FALLBACK_ORDER[primary]; when it has ended with a result, the record and the
\* response name the primary if only one call was made, and
\* FALLBACK_ORDER[primary] if the primary call failed.
C14_FallbackBackend ==
    /\ Len(invocations) <= 2
    /\ Len(invocations) = 2 =>
          /\ PrimaryRaised
          /\ invocations[2].model = FALLBACK_ORDER[invocations[1].model]
    /\ rpc = "done" =>
          LET answered == IF PrimaryRaised
                          THEN FALLBACK_ORDER[invocations[1].model]
                          ELSE invocations[1].model
          IN  /\ requests # {}
              /\ \A rec \in requests : rec.model = answered
              /\ ~req.stream => response.metadata.model = answered

\* a streamed request served live whose routed primary failed and whose
\* fallback answered
C14_Witness ==
    /\ rpc = "done"
    /\ req.stream /\ req.model = ""
    /\ request_mode = "live"
    /\ Len(invocations) = 2
    /\ \E rec \in requests : rec.model = FALLBACK_ORDER[Primary] /\ rec.model # Primary

\* C15: whenever the primary call has raised, the fallback has been looked up
\* (once: the request never makes a third call); when the fallback call has
\* raised too, the request has ended in failure, no record is inserted and no
\* done event emitted.
C15_FallbackOnAnyFailure ==
    /\ Len(invocations) <= 2
    /\ PrimaryRaised => fallback = FALLBACK_ORDER[invocations[1].model]
    /\ FallbackRaised => (requests = {} /\ CountEvents("done") = 0)

\* C16: the request inserts at most one record, and has inserted it when it
\* ended with a result; the record names the backend of the call that
\* answered, carries that answer's token count and latency, the cost of that
\* token count at that backend's rate, and the category, complexity and
\* confidence of the classification; the done event and the response carry the
\* same cost.
C16_RecordOfAnswer ==
    /\ Cardinality(requests) <= 1
    /\ rpc = "done" <=> requests # {}
    /\ \A rec \in requests :
          /\ rec.model = invocations[Len(invocations)].model
          /\ rec.tokens_used = result.tokens_used
          /\ rec.cost_cents
                = RoundHalfEven(MODEL_COSTS[rec.model] * result.tokens_used, 100)
          /\ rec.task_type = classification.task_type
          /\ rec.complexity = classification.complexity
          /\ rec.confidence = classification.confidence
          /\ IF req.stream
             THEN /\ events[Len(events)].type = "done"
                  /\ events[Len(events)].cost_cents = rec.cost_cents
             ELSE response.cost_cents = rec.cost_cents

\* a one-shot request answered by the fallback with the larger token count:
\* the record is priced at the fallback's rate, which differs from the primary's
C16_Witness ==
    /\ rpc = "done"
    /\ ~req.stream
    /\ Len(invocations) = 2
    /\ \E rec \in requests :
          /\ rec.model = FALLBACK_ORDER[Primary]
          /\ rec.tokens_used = 100 * MinTokens
          /\ rec.cost_cents # calculate_cost(Primary, rec.tokens_used)
          /\ rec.confidence = 300

\* the step starts the first backend call of a streamed request
FirstCallStarts == req.stream /\ invocations = <<>> /\ invocations' # <<>>

\* C17: a streamed request whose generator has run has emitted the metadata
\* event, as the first event and only there, carrying the routing decision;
\* the first backend call is started in a later step than the one that emits
\* the metadata event.
C17_MetadataFirst ==
    /\ [](/\ (req.stream /\ rpc \notin {"init", "check_cap", "await_cap", "start"})
              => events # <<>>
          /\ \A j \in 1 .. Len(events) :
                (events[j].type = "metadata") <=> (j = 1)
          /\ events # <<>> =>
                /\ events[1].model = Primary
                /\ events[1].was_routed = was_routed
                /\ events[1].task_type = classification.task_type
                /\ events[1].complexity = classification.complexity
                /\ events[1].confidence = classification.confidence)
    /\ [][FirstCallStarts => (events # <<>> /\ events[1].type = "metadata")]_vars

\* the metadata event has been emitted and no backend call is started yet
C17_Witness ==
    /\ req.stream
    /\ rpc = "metadata_yielded"
    /\ Len(events) = 1 /\ events[1].type = "metadata"
    /\ invocations = <<>>

\* C18: the stream is metadata, the primary's chunks, then - when the primary
\* call has raised - exactly one retry notice followed by the fallback's
\* chunks, then at most one done event, which is last; whenever the primary
\* call of a streamed request has raised, the notice is in the stream.
C18_OneLogicalStream ==
    /\ CountEvents("done") <= 1
    /\ \A j \in 1 .. Len(events) : events[j].type = "done" => j = Len(events)
    /\ Cardinality(Notices) <= 1
    /\ \A j \in 1 .. Len(events) :
          events[j].type = "chunk" /\ ~events[j].notice =>
              IF \E n \in Notices : n < j
              THEN events[j].model = FALLBACK_ORDER[Primary]
              ELSE events[j].model = Primary
    /\ (req.stream /\ PrimaryRaised) => Cardinality(Notices) = 1

\* C19: once the request is routed, the chosen backend is the override if the
\* request names one, whatever the classification, and the decision is marked
\* not routed; else it is select_model(category, complexity) and the decision
\* is marked routed.  The metadata of the stream or of the response and the
\* record carry that mark.
C19_OverrideBypassesRouting ==
    rpc # "init" =>
        /\ IF req.model # ""
           THEN Primary = req.model /\ ~was_routed
           ELSE /\ Primary = select_model(classification.task_type,
                                          classification.complexity).model
                /\ Primary = ROUTING_MATRIX[classification.task_type]
                                 [complexity_to_band(classification.complexity)]
                /\ was_routed
        /\ was_routed = (req.model = "")
        /\ events # <<>> => events[1].was_routed = was_routed
        /\ \A rec \in requests : rec.was_routed = was_routed
        /\ response.status = "ok" => response.metadata.was_routed = was_routed

\* a request for a code prompt of high complexity that names gemini-1.5-pro:
\* the table's choice (claude-3.5-sonnet) is bypassed, the record is marked not
\* routed
C19_Witness ==
    /\ rpc = "done"
    /\ req.model = "gemini-1.5-pro"
    /\ classification.task_type = "code" /\ classification.complexity = 61
    /\ Len(invocations) = 1
    /\ \E rec \in requests : rec.model = "gemini-1.5-pro" /\ ~rec.was_routed

\* C20: a request served in demo mode does not end in an exception of a
\* backend call: it ends with a result (an exception of the record store, after
\* a backend has answered, aside).
C20_DegradedNeverFails ==
    (request_mode = "demo" /\ rpc = "error") => result # NoResult
-----------------------------------------------------------------------------
(* Properties of the service as a whole *)

\* the step in which the completion request learns that the budget is spent or
\* that the mode is demo
LearnsDemo ==
    \/ rpc = "init" /\ rpc' # "init" /\ ret' = "demo"
    \/ rpc = "await_cap" /\ rpc' # "await_cap" /\ ret' = "False"

C21_Completion ==
    rpc \notin {"off", "init", "check_cap", "await_cap"} =>
        /\ request_mode = "demo" =>
              \A j \in 1 .. Len(invocations) : invocations[j].gateway = "gateway"
        /\ request_mode = "live" => openrouter_api_key /\ ~forced_demo
        /\ rpc \notin {"start", "metadata_yielded"} => invocations # <<>>

C21_Streamed ==
    pc \notin {"off", "init", "raised"} =>
        /\ (~openrouter_api_key \/ forced_demo) => current_mode = "demo"
        /\ current_mode = "demo" =>
              \A i \in Launched : TaskGateway(i) = "gateway"
        /\ pc # "start_yielded" => \A i \in Launched : tstate[i] # "none"

C21_Buffered ==
    run.pc \notin {"off", "init", "raised"} =>
        /\ (~openrouter_api_key \/ forced_demo) => run.current_mode = "demo"
        /\ run.current_mode = "demo" =>
              \A i \in Launched : run.gateway[i] = "gateway"
        /\ \A i \in Launched : run.rstate[i] # "none"

\* C21: a request that was told the budget is spent (check_spend_cap returned
\* False) or that read mode demo is not rejected: it goes on in demo mode to
\* its backend calls, and every backend call it makes - primary, fallback, the
\* backends of a streamed or a buffered comparison - goes to the simulated
\* gateway, never to the provider.
C21_BudgetIsModeTransition ==
    /\ [](C21_Completion /\ C21_Streamed /\ C21_Buffered)
    /\ [][rpc # "off" /\ LearnsDemo
            => (request_mode' = "demo" /\ rpc' = "start")]_vars

\* a completion request with a credential whose check_spend_cap returned
\* False: it was answered, by the fallback after the primary failed, both
\* calls on the simulated gateway
C21_Witness ==
    /\ rpc = "done"
    /\ openrouter_api_key
    /\ op.name = "check_spend_cap" /\ ret = "False"
    /\ Len(invocations) = 2
    /\ \A j \in 1 .. 2 : invocations[j].gateway = "gateway"

-----------------------------------------------------------------------------
(* Properties of the classifier and of the router *)

ScoresOf(prompt) == [t \in TaskType |-> Score(t, Lower(prompt))]

TopScore(prompt) ==
    LET scores == ScoresOf(prompt)
    IN  CHOOSE v \in {scores[t] : t \in TaskType} : \A t \in TaskType : scores[t] <= v

\* C23: detect_task_type returns a category of the highest score
\* (keyword_hits * 1.0 + regex_hits * 2.0) * weight with the confidence
\* top / (top + second + 0.001) capped at 1, second being the highest score of
\* the other categories; when the highest score is 0 it returns qa with the
\* confidence 0.3.
C23_TopCategoryOrDefault ==
    (call.fn = "classify" /\ call.result # NoClassification) =>
        LET scores == ScoresOf(call.prompt)
            top_score == TopScore(call.prompt)
            second_score ==
                CHOOSE v \in {scores[t] : t \in TaskType \ {call.result.task_type}} :
                    \A t \in TaskType \ {call.result.task_type} : scores[t] <= v
        IN  IF top_score = 0
            THEN call.result.task_type = "qa" /\ call.result.confidence = 300
            ELSE /\ scores[call.result.task_type] = top_score
                 /\ call.result.confidence =
                       Min(1000, RoundHalfEven(1000 * top_score,
                                               top_score + second_score + 1))

\* "hello" matches no keyword and no pattern of any category and was
\* classified
C23_Witness ==
    /\ call.fn = "classify"
    /\ call.prompt = "hello"
    /\ call.result # NoClassification
    /\ TopScore("hello") = 0

\* the band of the documented thresholds
DocumentedBand(complexity) ==
    CASE complexity <= 30 -> "low"
      [] 30 < complexity /\ complexity <= 60 -> "medium"
      [] complexity > 60 -> "high"

\* C24: for every category and every complexity in [1, 10] select_model
\* returns the backend of ROUTING_MATRIX[category][band], the band being low
\* up to 3.0, medium above 3.0 and up to 6.0, high above 6.0; the table has a
\* backend for each of the 7 categories and each of the 3 bands.
C24_RoutesByTableAndBand ==
    /\ Cardinality(TaskType) = 7
    /\ Cardinality(ComplexityBand) = 3
    /\ \A t \in TaskType : \A b \in ComplexityBand : ROUTING_MATRIX[t][b] \in ModelName
    /\ (call.fn \in {"classify", "select_model"} /\ call.selected # NoSelection) =>
          LET band == DocumentedBand(call.result.complexity)
          IN  /\ call.selected.model = ROUTING_MATRIX[call.result.task_type][band]
              /\ call.selected.reason[3] = band

\* select_model was called with code and 6.0: the band is medium
C24_Witness ==
    /\ call.fn = "select_model"
    /\ call.result.task_type = "code"
    /\ call.result.complexity = 60
    /\ call.selected # NoSelection
    /\ call.selected.reason[3] = "medium"

\* C25: for the prompt "Write a Python function to sort a list" classify
\* returns the category code, the band of its complexity is medium or high,
\* and select_model routes it to claude-3.5-sonnet.
C25_ExampleRoutedToSonnet ==
    (/\ call.fn = "classify"
     /\ call.prompt = "Write a Python function to sort a list"
     /\ call.selected # NoSelection) =>
        /\ call.result.task_type = "code"
        /\ complexity_to_band(call.result.complexity) \in {"medium", "high"}
        /\ call.selected.model = "claude-3.5-sonnet"

\* C27: for every category and every requested list (absent or empty, one
\* entry, more entries, repeated or not) get_ab_models returns 2 or 3 backends
\* that are distinct.
C27_TwoOrThreeDistinctBackends ==
    (call.fn = "get_ab_models" /\ call.returned) =>
        LET chosen == {call.models[j] : j \in 1 .. Len(call.models)}
        IN  /\ Len(call.models) \in 2 .. 3
            /\ Cardinality(chosen) = Len(call.models)

-----------------------------------------------------------------------------
(* Properties of the buffered comparison *)

\* the model_done events the stream emitted for task i
DoneEventsOf(i) ==
    {j \in 1 .. Len(out) : out[j].type = "model_done" /\ out[j].task = i}

\* C26: for the same outcomes of the backends and of the record store,
\* run_ab_test returns one outcome per requested backend, in request order,
\* whose error flag, token count and cost are those of the model_done event
\* stream_ab_test emitted for that backend, and it inserts the same result
\* records.
C26_BufferedEqualsDrainedStream ==
    (pc = "complete" /\ run.pc = "returned") =>
        /\ DOMAIN run.returned = Launched
        /\ \A i \in Launched :
              /\ run.returned[i].model = models[i]
              /\ Cardinality(DoneEventsOf(i)) = 1
              /\ \A j \in DoneEventsOf(i) :
                    /\ out[j].error = run.returned[i].error
                    /\ out[j].tokens_used = run.returned[i].tokens_used
                    /\ out[j].cost_cents = run.returned[i].cost_cents
        /\ run.ab_results = ab_results

-----------------------------------------------------------------------------
(* Properties of the gate under concurrent requests *)

\* caller c resumes check_spend_cap after its ledger query
Decides(c) ==
    /\ mpc[c] = "await_fetch"
    /\ mpc'[c] = "idle"
    /\ op'.name = "check_spend_cap"

\* C28: the flip to demo is mutually exclusive among concurrent requests: of
\* the requests that run check_spend_cap with a total at or above the cap,
\* each is returned False, the one that finds the flag unset sets it and
\* records today's date, each one that finds it set writes nothing; the flag
\* is set at most once a day, and at no time is the flag set without a date
\* or a date recorded without the flag.
C28_FlipMutuallyExclusive ==
    /\ [](forced_demo <=> forced_demo_date # NoDate)
    /\ [][\A c \in Callers :
            (Decides(c) /\ spent[c] >= SpendCap) =>
                /\ ret' = "False"
                /\ forced_demo'
                /\ IF forced_demo
                   THEN UNCHANGED <<forced_demo_date, flip_day>>
                   ELSE /\ forced_demo_date' = today
                        /\ flip_day # today
                        /\ flip_day' = today]_vars
    /\ [][(~forced_demo /\ forced_demo') =>
            \E c \in Callers : Decides(c) /\ spent[c] >= SpendCap]_vars

\* two requests ran check_spend_cap concurrently with totals at the cap or
\* above: both have returned, the second was returned False, the flag carries
\* today's date
C28_Witness ==
    /\ \A c \in Callers : mpc[c] = "idle" /\ spent[c] >= SpendCap
    /\ op.name = "check_spend_cap" /\ op.caller = 2
    /\ ret = "False"
    /\ forced_demo /\ forced_demo_date = today /\ flip_day = today

\* the cost of the result record task i inserted, 0 if it inserted none
CostRecorded(i) ==
    LET rs == {r \in ab_results : r.id = i}
    IN  IF rs = {} THEN 0 ELSE (CHOOSE r \in rs : TRUE).cost_cents

\* the cost of the comparison results recorded today
ComparisonCost == CostRecorded(1) + CostRecorded(2) + CostRecorded(3)

\* C29: the budget check counts the cost of all completions recorded today,
\* comparison results as well as single-request completions: check_spend_cap
\* returns False whenever the two together are at or above the cap.
C29_ComparisonCostCounts ==
    (pc = "complete" /\ op.name = "check_spend_cap") =>
        (spent[op.caller] + ComparisonCost >= SpendCap => ret = "False")

-----------------------------------------------------------------------------
(* Properties of the draining loop *)

\* C30: the draining loop is left with fewer than N model_done counted only
\* from its except branch, after a wait on the queue timed out and with every
\* task finished; and when complete is emitted, nothing a task put on the
\* queue is left on it.
C30_EarlyLeaveLosesNothing ==
    /\ [][(pc \in {"wait", "timeout"} /\ pc' = "gather"
              /\ models_done' < total_models)
            => (pc = "timeout" /\ AllTasksDone)]_vars
    /\ [](pc = "complete" => queue = <<>>)

-----------------------------------------------------------------------------
(* Properties of the routing and fallback tables *)

\* C36: the fallback table gives every backend exactly one fallback, never the
\* backend itself, so a dispatcher that looked the table up has an alternate;
\* the fallback of any backend lies on one of the two-backend cycles
\* claude-3.5-sonnet <-> gpt-4o and gpt-4o-mini <-> claude-3-haiku.
C36_FallbackTotalIrreflexiveCyclic ==
    /\ DOMAIN FALLBACK_ORDER = ModelName
    /\ \A m \in ModelName :
          LET f == FALLBACK_ORDER[m]
              g == FALLBACK_ORDER[f]
          IN  /\ f \in ModelName \ {m}
              /\ FALLBACK_ORDER[g] = f
              /\ {f, g} \in {{"claude-3.5-sonnet", "gpt-4o"},
                             {"gpt-4o-mini", "claude-3-haiku"}}
    /\ fallback # "" => fallback \in ModelName \ {Primary}
    /\ Len(invocations) = 2 => invocations[2].model = FALLBACK_ORDER[Primary]

\* the call of gemini-1.5-pro, which is on no cycle, raised RuntimeError: the
\* table gave gpt-4o and the fallback call was made
C36_Witness ==
    /\ Primary = "gemini-1.5-pro"
    /\ fallback = "gpt-4o"
    /\ Len(invocations) = 2
    /\ invocations[2].model = "gpt-4o"

\* C37: routing is monotone in cost: for every category the rate of the
\* backend of the low band is at most that of the medium band, which is at
\* most that of the high band; so no complexity above the one routed is
\* routed, for the same category, to a backend of a lower rate.
C37_CostMonotoneRouting ==
    /\ \A t \in TaskType :
          /\ MODEL_COSTS[ROUTING_MATRIX[t]["low"]]
                <= MODEL_COSTS[ROUTING_MATRIX[t]["medium"]]
          /\ MODEL_COSTS[ROUTING_MATRIX[t]["medium"]]
                <= MODEL_COSTS[ROUTING_MATRIX[t]["high"]]
    /\ (call.fn \in {"classify", "select_model"} /\ call.selected # NoSelection) =>
          \A c \in Complexities :
              c >= call.result.complexity =>
                  MODEL_COSTS[select_model(call.result.task_type, c).model]
                      >= MODEL_COSTS[call.selected.model]

\* summarization at 3.0 was routed to claude-3-haiku; 3.1 goes to gpt-4o-mini
\* and 6.1 to gemini-1.5-pro, each of a higher rate
C37_Witness ==
    /\ call.fn = "select_model"
    /\ call.result.task_type = "summarization"
    /\ call.result.complexity = 30
    /\ call.selected.model = "claude-3-haiku"
    /\ MODEL_COSTS[select_model("summarization", 31).model] > MODEL_COSTS["claude-3-haiku"]
    /\ MODEL_COSTS[select_model("summarization", 61).model]
          > MODEL_COSTS[select_model("summarization", 31).model]

-----------------------------------------------------------------------------
(* Properties of the stored records *)

\* C35: the session record is inserted before the start event is emitted and
\* before a backend task is launched, in the streamed and in the buffered
\* comparison, so a result record is inserted only when its session record
\* exists; when the insertion of the session record fails, no start event is
\* emitted and no task is launched.
C35_SessionRecordFirst ==
    /\ pc # "off" =>
          /\ (out # <<>> \/ ab_results # {}
                \/ \E i \in Tasks : tstate[i] # "none") => ab_tests
          /\ pc = "raised" =>
                /\ ~ab_tests /\ out = <<>> /\ ab_results = {}
                /\ \A i \in Tasks : tstate[i] = "none"
    /\ run.pc # "off" =>
          /\ (run.ab_results # {} \/ \E i \in Tasks : run.rstate[i] # "none")
                => run.ab_tests
          /\ run.pc = "raised" =>
                /\ ~run.ab_tests /\ run.ab_results = {}
                /\ \A i \in Tasks : run.rstate[i] = "none"

\* a streamed session has inserted its session record and a result record
C35_Witness ==
    /\ pc = "complete"
    /\ ab_tests
    /\ ab_results # {}
    /\ out[1].type = "start"

\* C32: whenever a model_done event without error has been emitted for a
\* backend, exactly one result record of that backend has been inserted for
\* the session; whenever a model_done event with error has been emitted, its
\* task has inserted no result record.
C32_RecordBeforeDone ==
    \A j \in 1 .. Len(out) :
        out[j].type = "model_done" =>
            IF out[j].error
            THEN {r \in ab_results : r.id = out[j].task} = {}
            ELSE Cardinality({r \in ab_results : r.model = out[j].model}) = 1

\* C33: at most one request record is inserted for a request, whether the
\* primary or the fallback answered, streamed or not; the record is inserted
\* only after the answering backend has delivered its final result, and a
\* stream carries a done event only when the record has been inserted.
C33_OneRecordAfterAnswer ==
    /\ [](/\ Cardinality(requests) <= 1
          /\ CountEvents("done") >= 1 => requests # {})
    /\ [][requests' # requests =>
            /\ requests = {}
            /\ result # NoResult
            /\ \A rec \in requests' :
                  /\ rec.model = invocations[Len(invocations)].model
                  /\ rec.tokens_used = result.tokens_used]_vars

\* a streamed request whose primary call raised RuntimeError was answered by
\* the fallback: one record, the done event after it
C33_Witness ==
    /\ req.stream
    /\ rpc = "done"
    /\ Len(invocations) = 2
    /\ Cardinality(requests) = 1
    /\ events[Len(events)].type = "done"

-----------------------------------------------------------------------------
(* Properties of a request under a changing gate *)

\* the provider path of a mode
PathOf(mode) == IF mode = "live" THEN "gateway_live" ELSE "gateway"

\* C34: the mode of a request is resolved once, before its first backend
\* call, and does not change afterwards; the primary and the fallback call of
\* a completion request and every backend task of a streamed or buffered
\* comparison go to the path of that mode, whatever other requests do to the
\* flag and whether or not midnight passes meanwhile.
C34_ModeFrozen ==
    /\ [](/\ rpc # "off" =>
                \A j \in 1 .. Len(invocations) :
                    invocations[j].gateway = PathOf(request_mode)
          /\ pc \notin {"off", "init", "raised"} =>
                \A i \in Launched : TaskGateway(i) = PathOf(current_mode)
          /\ run.pc \notin {"off", "init", "raised"} =>
                \A i \in Launched : run.gateway[i] = PathOf(run.current_mode))
    /\ [][/\ rpc \notin {"off", "init", "check_cap", "await_cap"} =>
                request_mode' = request_mode
          /\ pc \notin {"off", "init"} => current_mode' = current_mode
          /\ run.pc \notin {"off", "init"} =>
                /\ run.current_mode' = run.current_mode
                /\ run.gateway' = run.gateway]_vars

\* a request resolved live; while it was in flight another request set the
\* flag; its fallback call still went to the provider
C34_Witness ==
    /\ rpc \notin {"off", "init"}
    /\ request_mode = "live"
    /\ forced_demo
    /\ Len(invocations) = 2
    /\ invocations[2].gateway = "gateway_live"
    /\ op.caller = Other

-----------------------------------------------------------------------------
(* Properties of the vote *)

\* the row with its winner field blanked
WithoutWinner(row) == [row EXCEPT !.winner_model = ""]

\* vote v performs its UPDATE in this step
Records(v) == call.votes[v].pc = "found" /\ call'.votes[v].pc = "done"

\* C31: a stored session is changed only by a vote and only in its winner
\* field: a vote for a stored session sets that session's winner and changes
\* nothing else of any session or result record; a vote for an unknown id is
\* answered not found and changes no record; no session is deleted.
C31_OnlyWinnerChanges ==
    /\ [][/\ DOMAIN call'.ab_tests = DOMAIN call.ab_tests
          /\ call'.ab_results = call.ab_results
          /\ \A id \in DOMAIN call.ab_tests :
                /\ WithoutWinner(call'.ab_tests[id]) = WithoutWinner(call.ab_tests[id])
                /\ call'.ab_tests[id] # call.ab_tests[id] =>
                      \E v \in Callers :
                          /\ Records(v)
                          /\ call.votes[v].test_id = id
                          /\ call'.ab_tests[id].winner_model
                                = call.votes[v].winner_model
          /\ \A v \in Callers :
                Records(v) =>
                    /\ call.votes[v].test_id \in StoredIds
                    /\ call'.ab_tests[call.votes[v].test_id].winner_model
                          = call.votes[v].winner_model]_vars
    /\ [](\A v \in Callers :
             call.votes[v].pc = "done" =>
                 IF call.votes[v].test_id \in StoredIds
                 THEN call.votes[v].status = "ok"
                 ELSE call.votes[v].status = "not_found")

\* a vote for t1 was recorded and a vote for an unknown id was rejected: t1
\* has the winner voted, t2 has none
C31_Witness ==
    /\ call.votes[1].pc = "done" /\ call.votes[1].test_id = "t1"
    /\ call.votes[2].pc = "done" /\ call.votes[2].test_id = "unknown"
    /\ call.votes[2].status = "not_found"
    /\ call.ab_tests["t1"].winner_model = call.votes[1].winner_model
    /\ call.ab_tests["t2"].winner_model = ""

\* C39: the winner stored for a session is one of the backends that took part
\* in it.
C39_WinnerTookPart ==
    \A id \in DOMAIN call.ab_tests :
        call.ab_tests[id].winner_model # "" =>
            \E i \in 1 .. Len(call.ab_tests[id].models) :
                call.ab_tests[id].models[i] = call.ab_tests[id].winner_model

-----------------------------------------------------------------------------
(* Properties of the rate limiter *)

\* the calls admitted in the window that ends at the last admitted call
AdmittedInWindow ==
    {i \in 1 .. Len(call.admitted) :
        call.admitted[Len(call.admitted)] - call.admitted[i] < call.window}

\* C38: when a call is admitted, the calls admitted within the window that
\* check_rate_limit applied to it, this call included, are no more than the
\* threshold it applied.
C38_AdmittedWithinThreshold ==
    call.ret = "True" => Cardinality(AdmittedInWindow) <= call.max_req
====
